---- MODULE Spec2Model ----
(***************************************************************************)
(* Configuration distribution and change reconciliation of goma-server:    *)
(* the command package (src/cmd/remoteexec_proxy/main.go, lines 556-1366)  *)
(* with ConfigStore, ConfigMapLoader.Load, ConfigLoader.Load, loadConfigs, *)
(* mergePlatformProperties and the two ConfigMapWatcher strategies; the    *)
(* authdb client, the bytestream writer, the memory check of the frontend  *)
(* and the ACL checker (src/auth/acl/checker.go).                          *)
(*                                                                         *)
(* Specifications:                                                         *)
(*   Spec          ConfigMapLoader.Load against a changing source          *)
(*   SpecRetry     Load retried by a caller that keeps its last response   *)
(*   SpecStore     ConfigStore.Set / Delete / ConfigResp called directly   *)
(*   SpecLock      two goroutines calling Load on one ConfigStore          *)
(*   SpecLC        loadConfigs with its dispatch loop and workers          *)
(*   SpecSema      loadConfigs, its semaphore under fair scheduling        *)
(*   SpecFilter    the listing filter of loadConfigs                       *)
(*   SpecMerge     mergePlatformProperties on bounded inputs               *)
(*   SpecWatch     configMapBucketWatcher and configMapBucketPoller        *)
(*   SpecWatchFair SpecWatch with run and the drain goroutine scheduled    *)
(*   SpecSetup     one call of ConfigMapBucket.Watcher                     *)
(*   SpecAuthdb    authdb Client.IsMember                                  *)
(*   SpecBS        one bytestream Writer and its stream                    *)
(*   SpecAdmit     memoryCheck.Admit                                       *)
(*   SpecACL       acl.Checker, Set and CheckToken one after the other     *)
(*   SpecACLRace   acl.Checker, CheckToken concurrent with Set             *)
(***************************************************************************)
EXTENDS Integers, Sequences, FiniteSets, TLC

VARIABLES
    lastConfigs,   \* ConfigStore.lastConfigs: runtime name -> configs{seq, configs}
    versionIDSet,  \* ConfigStore.versionID # nil
    src,           \* the config map source (ConfigMapBucket and its storage)
    nchg,          \* number of changes made to the source so far
    pc,            \* position of the one caller of ConfigMapLoader.Load
    ld,            \* locals of the running Load call
    ret,           \* what the Load call returned
    hist,          \* per-call history: store at entry, calls made, records fetched
    prev,          \* summary of the previous Load call while the source is as that call saw it
    sop,           \* SpecStore: the last operation on the ConfigStore and its result
    lc,            \* SpecLC: state of one loadConfigs call
    mg,            \* SpecMerge: inputs and result of mergePlatformProperties
    pw,            \* SpecWatch: configMapBucketWatcher (push) state
    pl,            \* SpecWatch: configMapBucketPoller (poll) state
    wt,            \* SpecSetup: one call of ConfigMapBucket.Watcher
    am,            \* SpecAuthdb: one call of authdb Client.IsMember and its server
    bs,            \* SpecBS: one bytestream Writer, its stream and the server of the stream
    mc,            \* SpecAdmit: one call of memoryCheck.Admit
    cs,            \* SpecLock: the callers of one ConfigStore and its mutex
    served,        \* SpecRetry: the last aggregated response the caller of Load received
    ac             \* SpecACL: one acl.Checker and its callers

vars ==
    <<lastConfigs, versionIDSet, src, nchg, pc, ld, ret, hist, prev, sop, lc, mg, pw, pl,
      wt, am, bs, mc, cs, served, ac>>

-----------------------------------------------------------------------------
(* Bounds *)

MaxChanges == 2      \* source changes in one behaviour of Spec
MaxStoreOps == 3     \* operations in one behaviour of SpecStore
MaxProps == 2        \* length of a platform property list in SpecMerge
MaxMerges == 2       \* successive merges of the same source in SpecMerge
MaxListing == 3      \* objects in a listing of SpecLC
MaxWorkers == 5      \* objects in a listing of SpecSema
MaxFiltered == 2     \* objects in a listing of SpecFilter
MaxMsgs == 3         \* notification messages delivered in one behaviour of SpecWatch
MaxErrs == 1         \* transport errors of Receive in one behaviour of SpecWatch
MaxCloses == 2       \* calls of Close in one behaviour of SpecWatch
MaxNexts == 2        \* calls of Next in one behaviour of SpecWatch
MaxRespErrs == 3     \* errors the AuthDB server answers with before its answer
MaxData == 3         \* bytes of the data one bytestream Writer is given
MaxLimit == 4        \* the memory limit of the server, in units of memory
MaxMargin == 2       \* the -memory-margin flag, in the same units
MaxRss == 5          \* the resident memory size, in the same units
MaxSets == 2         \* calls of Checker.Set in one behaviour of SpecACLRace
MaxChecks == 2       \* calls of Checker.CheckToken in one behaviour of SpecACLRace

-----------------------------------------------------------------------------
(* Strings: Go compares strings byte-wise; path and strings helpers *)

Alphabet == "-./0123456789_abcdefghijklmnopqrstuvwxyz"

CharCode(c) == CHOOSE i \in 1..Len(Alphabet) : SubSeq(Alphabet, i, i) = c

RECURSIVE StrLess(_, _)
\* a < b in Go (byte-wise lexicographic order), as used by sort.Strings
StrLess(a, b) ==
    IF Len(b) = 0 THEN FALSE
    ELSE IF Len(a) = 0 THEN TRUE
    ELSE IF Head(a) = Head(b) THEN StrLess(Tail(a), Tail(b))
    ELSE CharCode(Head(a)) < CharCode(Head(b))

\* strings.HasPrefix(s, prefix)
HasPrefix(s, prefix) ==
    /\ Len(prefix) <= Len(s)
    /\ SubSeq(s, 1, Len(prefix)) = prefix

RECURSIVE IndexFrom(_, _, _)
\* the least i >= from such that s[i:] starts with sub, -1 if there is none
IndexFrom(s, sub, from) ==
    IF from + Len(sub) > Len(s) THEN -1
    ELSE IF SubSeq(s, from + 1, from + Len(sub)) = sub THEN from
    ELSE IndexFrom(s, sub, from + 1)

\* strings.Index(s, sub): 0-based index of the first occurrence, -1 if none
StringsIndex(s, sub) == IndexFrom(s, sub, 0)

RECURSIVE LastSlashFrom(_, _)
LastSlashFrom(s, i) ==
    IF i = 0 THEN 0
    ELSE IF SubSeq(s, i, i) = "/" THEN i
    ELSE LastSlashFrom(s, i - 1)

\* index (1-based) of the last "/" of s, 0 if none
LastSlash(s) == LastSlashFrom(s, Len(s))

RECURSIVE StripTrailingSlashes(_)
StripTrailingSlashes(s) ==
    IF Len(s) > 0 /\ SubSeq(s, Len(s), Len(s)) = "/"
    THEN StripTrailingSlashes(SubSeq(s, 1, Len(s) - 1))
    ELSE s

\* path.Base(s)
PathBase(s) ==
    IF Len(s) = 0 THEN "."
    ELSE LET t == StripTrailingSlashes(s)
             u == SubSeq(t, LastSlash(t) + 1, Len(t))
         IN  IF Len(u) = 0 THEN "/" ELSE u

\* path.Dir(s) for object names without "." and ".." elements and without
\* repeated slashes (path.Clean then only strips the trailing slash)
PathDir(s) ==
    LET i == LastSlash(s)
        d == StripTrailingSlashes(SubSeq(s, 1, i))
    IN  IF Len(d) = 0 THEN (IF i > 0 THEN "/" ELSE ".") ELSE d

-----------------------------------------------------------------------------
(* Sequences *)

RECURSIVE SetToSortedSeq(_)
\* the elements of a set of strings in ascending order (sort.Strings)
SetToSortedSeq(S) ==
    IF S = {} THEN <<>>
    ELSE LET m == CHOOSE x \in S : \A y \in S \ {x} : StrLess(x, y)
         IN  <<m>> \o SetToSortedSeq(S \ {m})

\* f with name mapped to v (name added to the domain if it is not there)
Put(f, name, v) == [n \in DOMAIN f \cup {name} |-> IF n = name THEN v ELSE f[n]]

\* restriction of a function to a subset of its domain
Restrict(f, S) == [x \in S |-> f[x]]

-----------------------------------------------------------------------------
(* Data model: selectors, descriptors, runtime configs, storage objects *)

Names == {"clang", "gcc", "msvc"}

Tokens == {"", "a", "b"}

NilSel == [nil |-> TRUE, name |-> "", version |-> "", target |-> "", hash |-> ""]

Sel(n, v, t, h) == [nil |-> FALSE, name |-> n, version |-> v, target |-> t, hash |-> h]

\* CmdDescriptor: Selector and Setup (nil, or its PathType)
NilDesc == [nil |-> TRUE, sel |-> NilSel, setup |-> "nil"]

Desc(sel, setup) == [nil |-> FALSE, sel |-> sel, setup |-> setup]

DescGood1 == Desc(Sel("clang", "1", "x86", "h1"), "POSIX")

DescGood2 == Desc(Sel("clang", "2", "x86", "h2"), "WINDOWS")

DescDenied == Desc(Sel("clang", "bad", "x86", "h3"), "POSIX")

DescNoSel == Desc(NilSel, "POSIX")

DescNoSetup == Desc(Sel("clang", "3", "x86", "h4"), "nil")

DescUnknown == Desc(Sel("clang", "4", "x86", "h5"), "UNKNOWN_PATH_TYPE")

\* a storage object as listed (ObjectAttrs) and as read (loadDescriptor)
Obj(name, updated, read, desc) ==
    [name |-> name, updated |-> updated, read |-> read, desc |-> desc]

\* cmdpb.RuntimeConfig
RC(addr, props, prc, deniedPre, allowedPre, deniedCmds) ==
    [addr |-> addr, props |-> props, hasPRC |-> prc, acl |-> "acl",
     disallowedPrebuilts |-> deniedPre, allowedPrebuilts |-> allowedPre,
     disallowedCommands |-> deniedCmds]

Prop(n, v) == [name |-> n, value |-> v]

RCSvc == RC("svc", <<Prop("os", "linux")>>, FALSE, <<"old">>, <<>>,
            <<Sel("", "bad", "", "")>>)

RCNoAddr == RC("", <<>>, TRUE, <<>>, <<"p">>, <<>>)

\* the runtime configs a config map entry is drawn from, by key
RCIds == {"svc", "noaddr"}

RCOf(id) == CASE id = "svc" -> RCSvc [] id = "noaddr" -> RCNoAddr

\* listings of the objects under a runtime's prefix, in listing order
Listing(objs, iterErr) == [objs |-> objs, iterErr |-> iterErr]

ListingOf(k, rt) ==
    CASE k = 1 -> Listing(<<Obj(rt \o "/old1/descriptors/h0", 1, "ok", DescGood2),
                            Obj(rt \o "/p1/descriptors/h1", 2, "ok", DescGood1),
                            Obj(rt \o "/p1/descriptors/h3", 3, "ok", DescDenied),
                            Obj(rt \o "/seq", 4, "ok", NilDesc)>>, FALSE)
      [] k = 2 -> Listing(<<Obj(rt \o "/p2/descriptors/h2", 5, "ok", DescGood2)>>, FALSE)
      [] k = 3 -> Listing(<<Obj(rt \o "/p1/descriptors/h1", 2, "ok", DescGood1),
                            Obj(rt \o "/p1/descriptors/h9", 6, "ioerr", NilDesc)>>, FALSE)

ListingIds == 1..3

-----------------------------------------------------------------------------
(* ConfigStore *)

EmptyStore == [n \in {} |-> [seq |-> "", configs |-> <<>>]]

\* ConfigStore.List
List(st) == SetToSortedSeq(DOMAIN st)

\* Set that stores the records but leaves the token of the entry as it was
Set_KeepsOldSeq(st, name, seq, confs) ==
    [n \in DOMAIN st \cup {name} |->
        IF n = name THEN [seq |-> IF name \in DOMAIN st THEN st[name].seq ELSE "",
                          configs |-> confs]
        ELSE st[n]]

\* Set that stores the token but leaves the records of the entry as they were
Set_KeepsOldConfigs(st, name, seq, confs) ==
    [n \in DOMAIN st \cup {name} |->
        IF n = name THEN [seq |-> seq,
                          configs |-> IF name \in DOMAIN st THEN st[name].configs ELSE <<>>]
        ELSE st[n]]

\* ConfigStore.Set
Set(st, name, seq, confs) ==
    [n \in DOMAIN st \cup {name} |->
        IF n = name THEN [seq |-> seq, configs |-> confs] ELSE st[n]]

\* ConfigStore.Seq: the zero value "" for a name that is not in the map
StoreSeq(st, name) == IF name \in DOMAIN st THEN st[name].seq ELSE ""

\* ConfigStore.Delete
Delete(st, name) == Restrict(st, DOMAIN st \ {name})

RECURSIVE AppendAll(_, _)
\* for _, name := range names { resp.Configs = append(resp.Configs, confs.configs...) }
AppendAll(st, names) ==
    IF Len(names) = 0 THEN <<>>
    ELSE st[Head(names)].configs \o AppendAll(st, Tail(names))

\* the reverse of a sequence
Reverse(s) == [i \in 1..Len(s) |-> s[Len(s) + 1 - i]]

\* ConfigResp that takes the names in another order than sort.Strings gives
ConfigResp_Unsorted(st) == AppendAll(st, Reverse(SetToSortedSeq(DOMAIN st)))

\* ConfigStore.ConfigResp: the Configs of the response
ConfigResp(st) == AppendAll(st, SetToSortedSeq(DOMAIN st))

-----------------------------------------------------------------------------
(* Descriptor fetch: checkPrebuilt, checkSelector, loadConfigs, ConfigLoader.Load *)

\* checkPrebuilt(rc, objName) = nil
checkPrebuilt(rc, objName) ==
    LET i == StringsIndex(objName, "/descriptors")
        prebuiltName == PathBase(SubSeq(objName, 1, i))
    IN  /\ i >= 0
        /\ \A k \in 1..Len(rc.disallowedPrebuilts) :
              ~HasPrefix(prebuiltName, rc.disallowedPrebuilts[k])
        /\ \/ Len(rc.allowedPrebuilts) = 0
           \/ \E k \in 1..Len(rc.allowedPrebuilts) :
                 HasPrefix(prebuiltName, rc.allowedPrebuilts[k])

\* one entry s of rc.DisallowedCommands rejects sel
SelectorDenies(s, sel) ==
    \/ s.name # "" /\ s.name = sel.name
    \/ s.version # "" /\ s.version = sel.version
    \/ s.target # "" /\ s.target = sel.target
    \/ s.hash # "" /\ s.hash = sel.hash

\* checkSelector(rc, sel) = nil
checkSelector(rc, sel) ==
    /\ ~sel.nil
    /\ \A k \in 1..Len(rc.disallowedCommands) :
          ~SelectorDenies(rc.disallowedCommands[k], sel)

\* the listing loop of loadConfigs keeps this object in attrsList
Survives(rc, o) ==
    /\ checkPrebuilt(rc, o.name)
    /\ PathBase(PathDir(o.name)) = "descriptors"

\* attrsList of loadConfigs
AttrsList(listing, rc) == SelectSeq(listing.objs, LAMBDA o : Survives(rc, o))

\* loadDescriptor fails (read or parse error)
ReadFails(o) == o.read # "ok"

\* a validation that lets a descriptor with an unknown path type through
Validates_NoPathTypeCheck(rc, d) ==
    /\ checkSelector(rc, d.sel)
    /\ d.setup # "nil"

\* the worker's validation of a descriptor that was read
Validates(rc, d) ==
    /\ checkSelector(rc, d.sel)
    /\ d.setup # "nil"
    /\ d.setup # "UNKNOWN_PATH_TYPE"

\* &cmdpb.RemoteexecPlatform{Properties, HasNsjail}
Platform(props) == [props |-> props]

\* the cmdpb.Config a worker stores for a validated descriptor
MkConfig(rc, platform, o) ==
    [target |-> rc.addr, ts |-> o.updated, desc |-> o.desc,
     platform |-> platform, acl |-> rc.acl]

\* the Config appended for a runtime with a PlatformRuntimeConfig
SyntheticConfig(rc, platform) ==
    [target |-> "", ts |-> 0, desc |-> NilDesc, platform |-> platform, acl |-> rc.acl]

NoConfs == [err |-> TRUE, confs |-> <<>>]

\* loadConfigs that drops an object it cannot read instead of failing
loadConfigs_DropsUnreadable(listing, rc, platform) ==
    LET attrs == AttrsList(listing, rc)
        ok == SelectSeq(attrs, LAMBDA o : ~ReadFails(o) /\ Validates(rc, o.desc))
    IN  IF listing.iterErr THEN NoConfs
        ELSE [err |-> FALSE,
              confs |-> [i \in 1..Len(ok) |-> MkConfig(rc, platform, ok[i])]]

\* loadConfigs, run with one worker at a time (parallel = false): workers run
\* in listing order, each to its end before the next starts
loadConfigs(listing, rc, platform) ==
    LET attrs == AttrsList(listing, rc)
    IN  IF listing.iterErr THEN NoConfs
        ELSE IF \E i \in 1..Len(attrs) : ReadFails(attrs[i]) THEN NoConfs
        ELSE [err |-> FALSE,
              confs |-> LET ok == SelectSeq(attrs, LAMBDA o : Validates(rc, o.desc))
                        IN  [i \in 1..Len(ok) |-> MkConfig(rc, platform, ok[i])]]

\* ConfigLoader.Load that adds the synthetic record for every runtime
AfterLoadConfigs_AlwaysSynthetic(rc, platform, r) ==
    IF r.err THEN NoConfs
    ELSE [err |-> FALSE, confs |-> Append(r.confs, SyntheticConfig(rc, platform))]

\* ConfigLoader.Load after loadConfigs returned r: the error, or the list
\* with the synthetic record if rc.PlatformRuntimeConfig != nil
AfterLoadConfigs(rc, platform, r) ==
    IF r.err THEN NoConfs
    ELSE [err |-> FALSE,
          confs |-> IF rc.hasPRC
                    THEN Append(r.confs, SyntheticConfig(rc, platform))
                    ELSE r.confs]

\* ConfigLoader.Load
ConfigLoaderLoad(listing, rc) ==
    LET platform == Platform(rc.props)
    IN  AfterLoadConfigs(rc, platform, loadConfigs(listing, rc, platform))

-----------------------------------------------------------------------------
(* mergePlatformProperties *)

RECURSIVE AppendAbsent(_, _, _)
\* the loop over platform.Properties: m is the set of names of the target
\* as it was before the loop
AppendAbsent(props, m, source) ==
    IF Len(source) = 0 THEN props
    ELSE IF Head(source).name \in m THEN AppendAbsent(props, m, Tail(source))
    ELSE AppendAbsent(Append(props, Prop(Head(source).name, Head(source).value)),
                      m, Tail(source))

\* a merge in which the source's value replaces the target's on a name clash
mergePlatformProperties_SourceWins(target, platform) ==
    IF platform.nil THEN target
    ELSE LET m == {target[i].name : i \in 1..Len(target)}
             over == [i \in 1..Len(target) |->
                        IF \E j \in 1..Len(platform.props) :
                              platform.props[j].name = target[i].name
                        THEN LET j == CHOOSE j \in 1..Len(platform.props) :
                                        platform.props[j].name = target[i].name
                             IN  platform.props[j]
                        ELSE target[i]]
         IN  AppendAbsent(over, m, platform.props)

\* mergePlatformProperties(rbePlatform, platform): rbePlatform.Properties after
\* the call, for rbePlatform.Properties = target before it
mergePlatformProperties(target, platform) ==
    IF platform.nil THEN target
    ELSE LET m == {target[i].name : i \in 1..Len(target)}
         IN  AppendAbsent(target, m, platform.props)

-----------------------------------------------------------------------------
(* The source: ConfigMapBucket over its config map and its storage bucket *)

\* ConfigMapBucket.Seqs fails: the config map file or a seq object cannot be
\* read (the URI is validated at start-up, so splitGCSPath does not fail)
SeqsFails(s) == s.fail \in {"configmap", "storage"}

\* ConfigMapBucket.RuntimeConfigs fails: the config map file cannot be read
RuntimeConfigsFails(s) == s.fail = "configmap"

\* ConfigMapBucket.Seqs: the content of <runtime>/seq of every runtime of the
\* config map whose seq object exists
Seqs(s) == [n \in DOMAIN s.cm \cap DOMAIN s.seqObj |-> s.seqObj[n]]

\* ConfigMapBucket.RuntimeConfigs: an empty ServiceAddr becomes RemoteexecAddr
RuntimeConfigs(s) ==
    [n \in DOMAIN s.cm |->
        LET rt == RCOf(s.cm[n])
        IN  IF rt.addr = "" THEN [rt EXCEPT !.addr = s.remoteexecAddr] ELSE rt]

FailKinds == {"none", "configmap", "storage"}

\* the runtimes whose config map entry changes while the server runs, and
\* the runtimes whose descriptor objects are replaced; every seq object changes
CmNames == {"gcc"}

ObjNames == {"clang"}

InitSource(addr) ==
    [cm |-> [n \in Names |-> "svc"],
     seqObj |-> [n \in Names |-> "a"],
     objs |-> [n \in Names |-> 1],
     fail |-> "none",
     remoteexecAddr |-> addr]

-----------------------------------------------------------------------------
(* ConfigMapLoader.Load *)

\* the map `updated` after the loop over seqs
Updated(st, seqs) ==
    LET names == {n \in DOMAIN seqs : StoreSeq(st, n) # seqs[n]}
    IN  [n \in names |-> seqs[n]]

\* a Load that never snapshots the stored names
Deleted_Nothing(st, seqs) == {}

\* the set `deleted` after the loop over seqs
Deleted(st, seqs) == {List(st)[i] : i \in 1..Len(List(st))} \ DOMAIN seqs

\* the check without the force flag
NoUpdate_IgnoresForce(updated, deleted, force) ==
    /\ DOMAIN updated = {}
    /\ deleted = {}

\* the check with the force flag inverted
NoUpdate_ForceInverted(updated, deleted, force) ==
    /\ DOMAIN updated = {}
    /\ deleted = {}
    /\ force

\* len(updated) == 0 && len(deleted) == 0 && !force
NoUpdate(updated, deleted, force) ==
    /\ DOMAIN updated = {}
    /\ deleted = {}
    /\ ~force

\* a Load that leaves the runtimes of `deleted` in the store
DeleteAll_KeepsAll(st, names) == st

RECURSIVE DeleteAll(_, _)
\* for name := range deleted { c.ConfigStore.Delete(name) }
DeleteAll(st, names) ==
    IF names = {} THEN st
    ELSE LET n == CHOOSE x \in names : TRUE
         IN  DeleteAll(Delete(st, n), names \ {n})

IdleLd == [force |-> FALSE, seqs |-> <<>>, updated |-> <<>>, deleted |-> {},
           rcs |-> <<>>, pending |-> {}, changed |-> FALSE, cancelled |-> FALSE]

IdleRet == [kind |-> "none", err |-> "", configs |-> <<>>]

IdleHist == [store0 |-> <<>>, seqsFailed |-> FALSE, bucket |-> FALSE, rcs |-> FALSE,
             listing |-> <<>>, fetched |-> <<>>, skipped |-> {}, errName |-> ""]

NoPrev == [valid |-> FALSE, force |-> FALSE, kind |-> "none", skipped |-> FALSE,
           store |-> <<>>]

RetErr(e) == [kind |-> "err", err |-> e, configs |-> <<>>]

RetNoUpdate == [kind |-> "noupdate", err |-> "", configs |-> <<>>]

RetResp(confs) == [kind |-> "resp", err |-> "", configs |-> confs]

StoreIdle ==
    /\ lastConfigs = EmptyStore
    /\ versionIDSet = FALSE

LoadIdle ==
    /\ src = InitSource("")
    /\ nchg = 0
    /\ pc = "idle"
    /\ ld = IdleLd
    /\ ret = IdleRet
    /\ hist = IdleHist
    /\ prev = NoPrev

\* what the next call remembers of the call that has just returned
PrevOf ==
    IF ld.changed THEN NoPrev
    ELSE [valid |-> TRUE, force |-> ld.force, kind |-> ret.kind,
          skipped |-> hist.skipped # {}, store |-> lastConfigs]

\* Load that takes a failure of Seqs for an empty token map
LoadBegin_IgnoresSeqsError(force) ==
    /\ pc = "idle"
    /\ hist' = [IdleHist EXCEPT !.store0 = lastConfigs, !.seqsFailed = SeqsFails(src)]
    /\ LET seqs == IF SeqsFails(src) THEN <<>> ELSE Seqs(src)
           updated == Updated(lastConfigs, seqs)
           deleted == Deleted(lastConfigs, seqs)
       IN  /\ ld' = [IdleLd EXCEPT !.force = force, !.seqs = seqs, !.updated = updated,
                                   !.deleted = deleted,
                                   !.pending = DOMAIN updated]
           /\ IF NoUpdate(updated, deleted, force)
              THEN ret' = RetNoUpdate /\ pc' = "done"
              ELSE ret' = IdleRet /\ pc' = "delete"
    /\ UNCHANGED <<lastConfigs, versionIDSet, src, nchg, prev>>

\* Load up to the ErrNoUpdate check: List, Seqs, the loop over seqs
LoadBegin(force) ==
    /\ pc = "idle"
    /\ hist' = [IdleHist EXCEPT !.store0 = lastConfigs, !.seqsFailed = SeqsFails(src)]
    /\ IF SeqsFails(src)
       THEN /\ ld' = [IdleLd EXCEPT !.force = force]
            /\ ret' = RetErr("seqs")
            /\ pc' = "done"
       ELSE LET seqs == Seqs(src)
                updated == Updated(lastConfigs, seqs)
                deleted == Deleted(lastConfigs, seqs)
            IN  /\ ld' = [IdleLd EXCEPT !.force = force, !.seqs = seqs, !.updated = updated,
                                        !.deleted = deleted,
                                        !.pending = DOMAIN updated]
                /\ IF NoUpdate(updated, deleted, force)
                   THEN ret' = RetNoUpdate /\ pc' = "done"
                   ELSE ret' = IdleRet /\ pc' = "delete"
    /\ UNCHANGED <<lastConfigs, versionIDSet, src, nchg, prev>>

\* Load that asks for Bucket and RuntimeConfigs before it deletes
LoadDelete_FailsBeforeDeleting ==
    /\ pc = "delete"
    /\ hist' = [hist EXCEPT !.bucket = TRUE, !.rcs = TRUE]
    /\ IF RuntimeConfigsFails(src)
       THEN /\ ret' = RetErr("rcs")
            /\ pc' = "done"
            /\ ld' = ld
            /\ lastConfigs' = lastConfigs
       ELSE /\ ld' = [ld EXCEPT !.rcs = RuntimeConfigs(src)]
            /\ ret' = ret
            /\ pc' = "update"
            /\ lastConfigs' = DeleteAll(lastConfigs, ld.deleted)
    /\ UNCHANGED <<versionIDSet, src, nchg, prev>>

\* the deletions, then Bucket and RuntimeConfigs
LoadDelete ==
    /\ pc = "delete"
    /\ lastConfigs' = DeleteAll(lastConfigs, ld.deleted)
    /\ hist' = [hist EXCEPT !.bucket = TRUE, !.rcs = TRUE]
    /\ IF RuntimeConfigsFails(src)
       THEN /\ ret' = RetErr("rcs")
            /\ pc' = "done"
            /\ ld' = ld
       ELSE /\ ld' = [ld EXCEPT !.rcs = RuntimeConfigs(src)]
            /\ ret' = ret
            /\ pc' = "update"
    /\ UNCHANGED <<versionIDSet, src, nchg, prev>>

\* the loop body that reloads a runtime without service address
UpdateStep_FetchesNoAddr(rcs, name) ==
    IF name \notin DOMAIN rcs THEN "notfound" ELSE "fetch"

\* the loop body that skips a runtime without runtime config
UpdateStep_SkipsMissing(rcs, name) ==
    IF name \notin DOMAIN rcs THEN "skip"
    ELSE IF rcs[name].addr = "" THEN "skip"
    ELSE "fetch"

\* what the loop body does with runtime `name`: runtime == nil, addr == ""
UpdateStep(rcs, name) ==
    IF name \notin DOMAIN rcs THEN "notfound"
    ELSE IF rcs[name].addr = "" THEN "skip"
    ELSE "fetch"

\* ConfigLoader.Load returns an error: a descriptor cannot be read or
\* parsed, or ctx is cancelled and the storage calls made with it fail
FetchFails(cancelled, r) == cancelled \/ r.err

\* one iteration of the loop over `updated` (Go iterates a map in any order)
LoadUpdate(name) ==
    /\ pc = "update"
    /\ name \in ld.pending
    /\ IF UpdateStep(ld.rcs, name) = "notfound"
       THEN /\ ret' = RetErr("notfound")
            /\ pc' = "done"
            /\ hist' = [hist EXCEPT !.errName = name]
            /\ UNCHANGED <<lastConfigs, ld>>
       ELSE IF UpdateStep(ld.rcs, name) = "skip"
       THEN /\ ld' = [ld EXCEPT !.pending = @ \ {name}]
            /\ hist' = [hist EXCEPT !.skipped = @ \cup {name}]
            /\ UNCHANGED <<lastConfigs, ret, pc>>
       ELSE LET r == ConfigLoaderLoad(ListingOf(src.objs[name], name), ld.rcs[name])
            IN  IF FetchFails(ld.cancelled, r)
                THEN /\ ret' = RetErr("fetch")
                     /\ pc' = "done"
                     /\ hist' = [hist EXCEPT !.errName = name,
                                             !.listing = Put(@, name, src.objs[name])]
                     /\ UNCHANGED <<lastConfigs, ld>>
                ELSE /\ lastConfigs' = Set(lastConfigs, name, ld.updated[name], r.confs)
                     /\ ld' = [ld EXCEPT !.pending = @ \ {name}]
                     /\ hist' = [hist EXCEPT
                                   !.listing = Put(@, name, src.objs[name]),
                                   !.fetched = Put(@, name, r.confs)]
                     /\ UNCHANGED <<ret, pc>>
    /\ UNCHANGED <<versionIDSet, src, nchg, prev>>

\* resp := c.ConfigStore.ConfigResp(); return resp, nil
LoadFinish ==
    /\ pc = "update"
    /\ ld.pending = {}
    /\ ret' = RetResp(ConfigResp(lastConfigs))
    /\ versionIDSet' = TRUE
    /\ pc' = "done"
    /\ UNCHANGED <<lastConfigs, src, nchg, ld, hist, prev>>

\* the caller takes the result; the next call may begin
LoadReturn ==
    /\ pc = "done"
    /\ prev' = PrevOf
    /\ pc' = "idle"
    /\ ld' = IdleLd
    /\ ret' = IdleRet
    /\ hist' = IdleHist
    /\ UNCHANGED <<lastConfigs, versionIDSet, src, nchg>>

\* the outside world changes the config map, a seq object, the objects of a
\* runtime or the availability of the source
ChangeSource ==
    /\ nchg < MaxChanges
    /\ pc # "done"
    /\ nchg' = nchg + 1
    /\ \/ \E name \in CmNames, rc \in RCIds :
             src' = [src EXCEPT !.cm = Put(@, name, rc)]
       \/ \E name \in CmNames \cap DOMAIN src.cm :
             src' = [src EXCEPT !.cm = Restrict(@, DOMAIN @ \ {name})]
       \/ \E name \in Names \ ObjNames, t \in Tokens \ {""} :
             src' = [src EXCEPT !.seqObj = Put(@, name, t)]
       \/ \E name \in DOMAIN src.seqObj \ ObjNames :
             src' = [src EXCEPT !.seqObj = Restrict(@, DOMAIN @ \ {name})]
       \/ \* a publisher uploads descriptor objects and then writes the seq object
          \E name \in ObjNames, k \in ListingIds, t \in Tokens :
             src' = [src EXCEPT !.objs[name] = k, !.seqObj = Put(@, name, t)]
       \/ \E f \in FailKinds :
             src' = [src EXCEPT !.fail = f]
    /\ src' # src
    /\ ld' = IF pc = "idle" THEN ld ELSE [ld EXCEPT !.changed = TRUE]
    /\ prev' = NoPrev
    /\ UNCHANGED <<lastConfigs, versionIDSet, pc, ret, hist>>

OtherIdle ==
    /\ sop = [op |-> "none", n |-> 0, before |-> <<>>, resp |-> <<>>]
    /\ lc = <<>>
    /\ mg = <<>>
    /\ pw = <<>>
    /\ pl = <<>>
    /\ wt = <<>>
    /\ am = <<>>
    /\ bs = <<>>
    /\ mc = <<>>
    /\ cs = <<>>
    /\ served = <<>>
    /\ ac = <<>>

Init ==
    /\ StoreIdle
    /\ \E addr \in {"", "rbe"} : src = InitSource(addr)
    /\ nchg = 0
    /\ pc = "idle"
    /\ ld = IdleLd
    /\ ret = IdleRet
    /\ hist = IdleHist
    /\ prev = NoPrev
    /\ OtherIdle

Next ==
    \/ \E force \in BOOLEAN : LoadBegin(force) /\ UNCHANGED <<sop, lc, mg, pw, pl, wt, am, bs, mc, cs, served, ac>>
    \/ LoadDelete /\ UNCHANGED <<sop, lc, mg, pw, pl, wt, am, bs, mc, cs, served, ac>>
    \/ \E name \in Names : LoadUpdate(name) /\ UNCHANGED <<sop, lc, mg, pw, pl, wt, am, bs, mc, cs, served, ac>>
    \/ LoadFinish /\ UNCHANGED <<sop, lc, mg, pw, pl, wt, am, bs, mc, cs, served, ac>>
    \/ LoadReturn /\ UNCHANGED <<sop, lc, mg, pw, pl, wt, am, bs, mc, cs, served, ac>>
    \/ ChangeSource /\ UNCHANGED <<sop, lc, mg, pw, pl, wt, am, bs, mc, cs, served, ac>>

Spec == Init /\ [][Next]_vars

-----------------------------------------------------------------------------
(* SpecRetry: Load retried by a caller that keeps the last response it got *)

\* the context of the running Load is cancelled after Seqs has returned
LoadCancel ==
    /\ pc \in {"delete", "update"}
    /\ ~ld.cancelled
    /\ ld' = [ld EXCEPT !.cancelled = TRUE]
    /\ UNCHANGED <<lastConfigs, versionIDSet, src, nchg, pc, ret, hist, prev>>

RECURSIVE LoadAll(_, _, _)
\* the store after a Load that reloaded these runtimes of source s
LoadAll(st, s, names) ==
    IF names = {} THEN st
    ELSE LET n == CHOOSE x \in names : TRUE
             r == ConfigLoaderLoad(ListingOf(s.objs[n], n), RuntimeConfigs(s)[n])
         IN  LoadAll(Set(st, n, Seqs(s)[n], r.confs), s, names \ {n})

\* the store after the first Load of the server from the initial source
LoadedStore == LoadAll(EmptyStore, InitSource("rbe"), Names)

NoneServed == [valid |-> FALSE, configs |-> <<>>, failed |-> FALSE]

\* the content of the source: token map, metadata and storage objects,
\* without its availability
Content(s) == [cm |-> s.cm, seqObj |-> s.seqObj, objs |-> s.objs,
               remoteexecAddr |-> s.remoteexecAddr]

\* what the caller holds once the call has returned: the response of the
\* call if it got one, else the one it held; `failed` tells that the call
\* failed and that it, or a failed call before it with the same content of
\* the source, left the store changed
ServedAfter ==
    [valid |-> served.valid \/ ret.kind = "resp",
     configs |-> IF ret.kind = "resp" THEN ret.configs ELSE served.configs,
     failed |-> /\ ret.kind = "err"
                /\ \/ lastConfigs # hist.store0
                   \/ served.failed /\ ~ld.changed]

\* the server has completed its first Load; since then the config map may
\* have lost a runtime
InitRetry ==
    /\ lastConfigs = LoadedStore
    /\ versionIDSet = TRUE
    /\ \/ src = InitSource("rbe")
       \/ src = [InitSource("rbe") EXCEPT !.cm = Restrict(@, Names \ CmNames)]
    /\ nchg = 0
    /\ pc = "idle"
    /\ ld = IdleLd
    /\ ret = IdleRet
    /\ hist = IdleHist
    /\ prev = NoPrev
    /\ served = [NoneServed EXCEPT !.valid = TRUE, !.configs = ConfigResp(LoadedStore)]
    /\ sop = [op |-> "none", n |-> 0, before |-> <<>>, resp |-> <<>>]
    /\ lc = <<>>
    /\ mg = <<>>
    /\ pw = <<>>
    /\ pl = <<>>
    /\ wt = <<>>
    /\ am = <<>>
    /\ bs = <<>>
    /\ mc = <<>>
    /\ cs = <<>>
    /\ ac = <<>>

RetryFrame ==
    UNCHANGED <<sop, lc, mg, pw, pl, wt, am, bs, mc, cs, ac>>

NextRetry ==
    \/ \E force \in BOOLEAN : LoadBegin(force) /\ UNCHANGED served /\ RetryFrame
    \/ LoadCancel /\ UNCHANGED served /\ RetryFrame
    \/ LoadDelete /\ UNCHANGED served /\ RetryFrame
    \/ \E name \in Names : LoadUpdate(name) /\ UNCHANGED served /\ RetryFrame
    \/ LoadFinish /\ UNCHANGED served /\ RetryFrame
    \/ LoadReturn /\ served' = ServedAfter /\ RetryFrame
    \/ ChangeSource
          /\ served' = [served EXCEPT !.failed = @ /\ Content(src') = Content(src)]
          /\ RetryFrame

SpecRetry == InitRetry /\ [][NextRetry]_vars

-----------------------------------------------------------------------------
(* SpecStore: the ConfigStore driven directly *)

\* record lists a caller of Set passes
StoreRecord(k) == [target |-> "svc", ts |-> k, desc |-> DescGood1,
                   platform |-> Platform(<<>>), acl |-> "acl"]

StoreLists == {<<>>, <<StoreRecord(1)>>, <<StoreRecord(2), StoreRecord(1)>>}

SopIdle == [op |-> "none", n |-> 0, before |-> <<>>, resp |-> <<>>]

StoreSet(name, seq, confs) ==
    /\ sop.n < MaxStoreOps
    /\ lastConfigs' = Set(lastConfigs, name, seq, confs)
    /\ sop' = [op |-> "Set", n |-> sop.n + 1, before |-> lastConfigs, resp |-> <<>>]
    /\ UNCHANGED versionIDSet

StoreDelete(name) ==
    /\ sop.n < MaxStoreOps
    /\ lastConfigs' = Delete(lastConfigs, name)
    /\ sop' = [op |-> "Delete", n |-> sop.n + 1, before |-> lastConfigs, resp |-> <<>>]
    /\ UNCHANGED versionIDSet

StoreConfigResp ==
    /\ sop.n < MaxStoreOps
    /\ versionIDSet' = TRUE
    /\ sop' = [op |-> "ConfigResp", n |-> sop.n + 1, before |-> lastConfigs,
               resp |-> ConfigResp(lastConfigs)]
    /\ UNCHANGED lastConfigs

InitStore ==
    /\ StoreIdle
    /\ LoadIdle
    /\ sop = SopIdle
    /\ lc = <<>>
    /\ mg = <<>>
    /\ pw = <<>>
    /\ pl = <<>>
    /\ wt = <<>>
    /\ am = <<>>
    /\ bs = <<>>
    /\ mc = <<>>
    /\ cs = <<>>
    /\ served = <<>>
    /\ ac = <<>>

NextStore ==
    \/ \E name \in Names, seq \in Tokens, confs \in StoreLists :
          StoreSet(name, seq, confs)
          /\ UNCHANGED <<src, nchg, pc, ld, ret, hist, prev, lc, mg, pw, pl, wt, am, bs, mc, cs, served, ac>>
    \/ \E name \in Names :
          StoreDelete(name)
          /\ UNCHANGED <<src, nchg, pc, ld, ret, hist, prev, lc, mg, pw, pl, wt, am, bs, mc, cs, served, ac>>
    \/ StoreConfigResp
          /\ UNCHANGED <<src, nchg, pc, ld, ret, hist, prev, lc, mg, pw, pl, wt, am, bs, mc, cs, served, ac>>

SpecStore == InitStore /\ [][NextStore]_vars

-----------------------------------------------------------------------------
(* SpecMerge: mergePlatformProperties on bounded inputs *)

PropNames == {"OS", "ABI"}

PropValues == {"Linux", "Windows", "x64"}

Props == {Prop(n, v) : n \in PropNames, v \in PropValues}

\* the property lists of at most MaxProps properties
PropLists == UNION {[1..k -> Props] : k \in 0..MaxProps}

NilPlatform == [nil |-> TRUE, props |-> <<>>]

Platforms == {NilPlatform} \cup {[nil |-> FALSE, props |-> ps] : ps \in PropLists}

\* mg.target0: the target before the first merge; mg.target: the target
\* now; mg.once: the target after the first merge; mg.n: merges done
InitMerge ==
    /\ StoreIdle
    /\ LoadIdle
    /\ sop = SopIdle
    /\ lc = <<>>
    /\ pw = <<>>
    /\ pl = <<>>
    /\ wt = <<>>
    /\ am = <<>>
    /\ bs = <<>>
    /\ mc = <<>>
    /\ cs = <<>>
    /\ served = <<>>
    /\ ac = <<>>
    /\ \E t \in PropLists, p \in Platforms :
          mg = [target0 |-> t, platform |-> p, target |-> t, once |-> t, n |-> 0]

Merge ==
    /\ mg.n < MaxMerges
    /\ LET t == mergePlatformProperties(mg.target, mg.platform)
       IN  mg' = [mg EXCEPT !.target = t,
                            !.once = IF mg.n = 0 THEN t ELSE @,
                            !.n = @ + 1]

NextMerge ==
    Merge /\ UNCHANGED <<lastConfigs, versionIDSet, src, nchg, pc, ld, ret, hist,
                          prev, sop, lc, pw, pl, wt, am, bs, mc, cs, served, ac>>

SpecMerge == InitMerge /\ [][NextMerge]_vars

-----------------------------------------------------------------------------
(* SpecLC: one call of loadConfigs, with its dispatch loop and its workers *)

\* runtime.NumCPU() of the machine
NumCPU == 1

\* the size of the semaphore
Concurrent(parallel) == IF parallel THEN NumCPU * 4 ELSE 1

\* the objects a listing of runtime clang is made of
ObjPool ==
    {Obj("clang/p1/descriptors/h1", 1, "ok", DescGood1),
     Obj("clang/p1/descriptors/h2", 2, "ok", DescGood2),
     Obj("clang/p1/descriptors/h3", 3, "ok", DescDenied),
     Obj("clang/p2/descriptors/h4", 4, "ok", DescNoSel),
     Obj("clang/p2/descriptors/h5", 5, "ok", DescNoSetup),
     Obj("clang/p2/descriptors/h6", 6, "ok", DescUnknown),
     Obj("clang/p3/descriptors/h7", 7, "ioerr", NilDesc),
     Obj("clang/old1/descriptors/h8", 8, "ok", DescGood1),
     Obj("clang/p3/descriptors/h9", 9, "parseerr", NilDesc)}

\* the listings of at most MaxListing different objects, in any order
LCListings ==
    UNION {{f \in [1..k -> ObjPool] : \A i, j \in 1..k : i # j => f[i] # f[j]} :
             k \in 0..MaxListing}

\* a worker that appends its record to the records stored so far
SlotOf_CompletionOrder(i, confList) == Cardinality(DOMAIN confList) + 1

\* the slot of confList that worker i writes: confList[i] = ...

SlotOf(i, confList) == i

RECURSIVE Compact_NewestFirst(_, _, _)
\* a compaction that puts each record in front of those collected so far
Compact_NewestFirst(confList, i, n) ==
    IF i > n THEN <<>>
    ELSE IF i \in DOMAIN confList
         THEN Compact_NewestFirst(confList, i + 1, n) \o <<confList[i]>>
         ELSE Compact_NewestFirst(confList, i + 1, n)

RECURSIVE Compact(_, _, _)
\* the loop over attrsList after Wait: the non-nil slots i..n, in order
Compact(confList, i, n) ==
    IF i > n THEN <<>>
    ELSE IF i \in DOMAIN confList
         THEN <<confList[i]>> \o Compact(confList, i + 1, n)
         ELSE Compact(confList, i + 1, n)

LCIdleResult == [done |-> FALSE, err |-> FALSE, confs |-> <<>>]

\* RCSvc with a PlatformRuntimeConfig
RCSvcPRC == [RCSvc EXCEPT !.hasPRC = TRUE]

\* the runtime configs ConfigLoader.Load is called with
LCRuntimeConfigs == {RCSvc, RCSvcPRC}

InitLC ==
    /\ StoreIdle
    /\ LoadIdle
    /\ sop = SopIdle
    /\ mg = <<>>
    /\ pw = <<>>
    /\ pl = <<>>
    /\ wt = <<>>
    /\ am = <<>>
    /\ bs = <<>>
    /\ mc = <<>>
    /\ cs = <<>>
    /\ served = <<>>
    /\ ac = <<>>
    /\ \E objs \in LCListings, iterErr \in BOOLEAN, parallel \in BOOLEAN,
          rc \in LCRuntimeConfigs :
          lc = [listing |-> Listing(objs, iterErr), rc |-> rc, parallel |-> parallel,
                pcm |-> "list", attrs |-> <<>>, next |-> 1, sema |-> 0,
                w |-> <<>>, confList |-> <<>>, egErr |-> 0, order |-> <<>>,
                result |-> LCIdleResult, loaded |-> LCIdleResult]

\* the listing loop: iter.Next until iterator.Done, or its error
LCList ==
    /\ lc.pcm = "list"
    /\ IF lc.listing.iterErr
       THEN lc' = [lc EXCEPT !.pcm = "done",
                             !.result = [done |-> TRUE, err |-> TRUE, confs |-> <<>>]]
       ELSE LET attrs == AttrsList(lc.listing, lc.rc)
            IN  lc' = [lc EXCEPT !.pcm = "dispatch", !.attrs = attrs,
                                 !.w = [i \in 1..Len(attrs) |-> "new"]]

\* sema <- struct{}{}; eg.Go(...) for the next index
LCDispatch ==
    /\ lc.pcm = "dispatch"
    /\ lc.next <= Len(lc.attrs)
    /\ lc.sema < Concurrent(lc.parallel)
    /\ lc' = [lc EXCEPT !.sema = @ + 1, !.w[lc.next] = "started", !.next = @ + 1]

\* a worker that releases the semaphore at the end of its body, not in a
\* deferred call: the return on an error skips the release
Release_NotOnError(sema, exit) == IF exit = "error" THEN sema ELSE sema - 1

\* defer func() { <-sema }(): the worker releases on every return
Release(sema, exit) == sema - 1

\* an errgroup that keeps the error of the worker that failed last
FirstErr_LastWins(cur, i) == i

\* errgroup.Group: errOnce keeps the error of the first worker that returns one
FirstErr(cur, i) == IF cur = 0 THEN i ELSE cur

\* worker i: loadDescriptor; on an error the worker returns it (errgroup
\* keeps the first one) and releases the semaphore
LCRead(i) ==
    /\ lc.pcm = "dispatch"
    /\ i \in DOMAIN lc.w
    /\ lc.w[i] = "started"
    /\ IF ReadFails(lc.attrs[i])
       THEN lc' = [lc EXCEPT !.w[i] = "done", !.sema = Release(@, "error"),
                             !.order = Append(@, i),
                             !.egErr = FirstErr(@, i)]
       ELSE lc' = [lc EXCEPT !.w[i] = "read"]

\* worker i: the checks on the descriptor, the write of its slot, return nil
LCStore(i) ==
    /\ lc.pcm = "dispatch"
    /\ i \in DOMAIN lc.w
    /\ lc.w[i] = "read"
    /\ IF Validates(lc.rc, lc.attrs[i].desc)
       THEN lc' = [lc EXCEPT !.w[i] = "done", !.sema = Release(@, "stored"),
                             !.order = Append(@, i),
                             !.confList = Put(@, SlotOf(i, @),
                                              MkConfig(lc.rc, Platform(lc.rc.props),
                                                       lc.attrs[i]))]
       ELSE lc' = [lc EXCEPT !.w[i] = "done", !.sema = Release(@, "dropped"),
                             !.order = Append(@, i)]

\* eg.Wait() returns after every worker has returned; then the compaction
LCWait ==
    /\ lc.pcm = "dispatch"
    /\ lc.next > Len(lc.attrs)
    /\ \A i \in DOMAIN lc.w : lc.w[i] = "done"
    /\ lc' = [lc EXCEPT
                !.pcm = "done",
                !.result = IF lc.egErr # 0
                           THEN [done |-> TRUE, err |-> TRUE, confs |-> <<>>]
                           ELSE [done |-> TRUE, err |-> FALSE,
                                 confs |-> Compact(lc.confList, 1, Len(lc.attrs))]]

\* ConfigLoader.Load, once its call of loadConfigs has returned
LCLoad ==
    /\ lc.pcm = "done"
    /\ LET r == AfterLoadConfigs(lc.rc, Platform(lc.rc.props),
                                 [err |-> lc.result.err, confs |-> lc.result.confs])
       IN  lc' = [lc EXCEPT !.pcm = "loaded",
                            !.loaded = [done |-> TRUE, err |-> r.err, confs |-> r.confs]]

NextLC ==
    \/ LCList /\ UNCHANGED <<lastConfigs, versionIDSet, src, nchg, pc, ld, ret, hist,
                              prev, sop, mg, pw, pl, wt, am, bs, mc, cs, served, ac>>
    \/ LCDispatch /\ UNCHANGED <<lastConfigs, versionIDSet, src, nchg, pc, ld, ret, hist,
                                  prev, sop, mg, pw, pl, wt, am, bs, mc, cs, served, ac>>
    \/ \E i \in DOMAIN lc.w :
          LCRead(i) /\ UNCHANGED <<lastConfigs, versionIDSet, src, nchg, pc, ld, ret, hist,
                                    prev, sop, mg, pw, pl, wt, am, bs, mc, cs, served, ac>>
    \/ \E i \in DOMAIN lc.w :
          LCStore(i) /\ UNCHANGED <<lastConfigs, versionIDSet, src, nchg, pc, ld, ret, hist,
                                     prev, sop, mg, pw, pl, wt, am, bs, mc, cs, served, ac>>
    \/ LCWait /\ UNCHANGED <<lastConfigs, versionIDSet, src, nchg, pc, ld, ret, hist,
                              prev, sop, mg, pw, pl, wt, am, bs, mc, cs, served, ac>>
    \/ LCLoad /\ UNCHANGED <<lastConfigs, versionIDSet, src, nchg, pc, ld, ret, hist,
                              prev, sop, mg, pw, pl, wt, am, bs, mc, cs, served, ac>>

SpecLC == InitLC /\ [][NextLC]_vars

\* SpecSema: loadConfigs over listings long enough to fill the semaphore

\* a listing with more objects than NumCPU * 4: good, dropped and unreadable
ObjSeq ==
    <<Obj("clang/p1/descriptors/h1", 1, "ok", DescGood1),
      Obj("clang/p1/descriptors/h3", 3, "ok", DescDenied),
      Obj("clang/p3/descriptors/h7", 7, "ioerr", NilDesc),
      Obj("clang/p1/descriptors/h2", 2, "ok", DescGood2),
      Obj("clang/p2/descriptors/h5", 5, "ok", DescNoSetup),
      Obj("clang/p2/descriptors/h4", 4, "ok", DescNoSel)>>

InitSema ==
    /\ StoreIdle
    /\ LoadIdle
    /\ sop = SopIdle
    /\ mg = <<>>
    /\ pw = <<>>
    /\ pl = <<>>
    /\ wt = <<>>
    /\ am = <<>>
    /\ bs = <<>>
    /\ mc = <<>>
    /\ cs = <<>>
    /\ served = <<>>
    /\ ac = <<>>
    /\ \E k \in 0..MaxWorkers, parallel \in BOOLEAN :
          lc = [listing |-> Listing(SubSeq(ObjSeq, 1, k), FALSE), rc |-> RCSvc,
                parallel |-> parallel,
                pcm |-> "list", attrs |-> <<>>, next |-> 1, sema |-> 0,
                w |-> <<>>, confList |-> <<>>, egErr |-> 0, order |-> <<>>,
                result |-> LCIdleResult, loaded |-> LCIdleResult]

\* a goroutine that can run is run, and a storage read returns
SpecSema == InitSema /\ [][NextLC]_vars /\ WF_vars(NextLC)

\* SpecFilter: the listing loop of loadConfigs over object names and
\* prebuilt lists of every shape

\* names of objects under the prefix of runtime clang
FilterNames ==
    {"clang/p1/descriptors/h1",
     "clang/old1/descriptors/h2",
     "clang/p1/other/h3",
     "clang/p1/descriptors/sub/h4",
     "clang/descriptors2/descriptors/h5"}

FilterListings ==
    UNION {{f \in [1..k -> FilterNames] : \A i, j \in 1..k : i # j => f[i] # f[j]} :
             k \in 0..MaxFiltered}

\* rc.DisallowedPrebuilts and rc.AllowedPrebuilts
DenyLists == {<<>>, <<"old">>, <<"p">>, <<"desc">>, <<"cl">>}

AllowLists == {<<>>, <<"p">>, <<"old">>, <<"p1", "desc">>}

InitFilter ==
    /\ StoreIdle
    /\ LoadIdle
    /\ sop = SopIdle
    /\ mg = <<>>
    /\ pw = <<>>
    /\ pl = <<>>
    /\ wt = <<>>
    /\ am = <<>>
    /\ bs = <<>>
    /\ mc = <<>>
    /\ cs = <<>>
    /\ served = <<>>
    /\ ac = <<>>
    /\ \E names \in FilterListings, deny \in DenyLists, allow \in AllowLists :
          lc = [listing |-> Listing([i \in 1..Len(names) |->
                                        Obj(names[i], i, "ok", DescGood1)], FALSE),
                rc |-> RC("svc", <<>>, FALSE, deny, allow, <<>>),
                parallel |-> FALSE,
                pcm |-> "list", attrs |-> <<>>, next |-> 1, sema |-> 0,
                w |-> <<>>, confList |-> <<>>, egErr |-> 0, order |-> <<>>,
                result |-> LCIdleResult, loaded |-> LCIdleResult]

NextFilter ==
    LCList /\ UNCHANGED <<lastConfigs, versionIDSet, src, nchg, pc, ld, ret, hist,
                           prev, sop, mg, pw, pl, wt, am, bs, mc, cs, served, ac>>

SpecFilter == InitFilter /\ [][NextFilter]_vars

-----------------------------------------------------------------------------
(* SpecWatch: the watcher that ConfigMapBucket.Watcher returned *)

\* storage.ObjectFinalizeEvent
ObjectFinalizeEvent == "OBJECT_FINALIZE"

\* the notifications the bucket's topic delivers
MsgKinds ==
    {[eventType |-> ObjectFinalizeEvent, objectId |-> "clang/seq"],
     [eventType |-> ObjectFinalizeEvent, objectId |-> "clang/p1/descriptors/h1"],
     [eventType |-> "OBJECT_DELETE", objectId |-> "clang/seq"]}

\* Next treats every finalized object as an update of a seq file
Relevant_AnyName(m) == m.eventType = ObjectFinalizeEvent

\* Next treats the message as an update of a seq file
Relevant(m) ==
    /\ m.eventType = ObjectFinalizeEvent
    /\ PathBase(m.objectId) = "seq"

PwOff == [active |-> FALSE]

PlOff == [active |-> FALSE]

\* configMapBucketWatcher: w.ch is unbuffered, so the messages "in" it are
\* those of the Receive callbacks blocked in w.ch <- msg, oldest first
PwInit ==
    [active |-> TRUE,
     run |-> "receive",      \* "receive": in rpc.Retry/Receive; "closed": close(w.ch) done
     cancelled |-> FALSE,    \* w.cancel() was called
     sending |-> <<>>,       \* callbacks blocked in w.ch <- msg
     delivered |-> 0,        \* messages handed to the callback so far
     nerr |-> 0,             \* transport errors of Receive so far
     lastCode |-> "",        \* the status code of the last of them
     taken |-> {},           \* ids of the messages taken from w.ch
     acks |-> <<>>,          \* id -> number of msg.Ack() calls
     pcn |-> "idle",         \* the caller of Next
     wake |-> "",            \* the case a Next parked in its select was woken by
     res |-> "",             \* what Next returned
     ctxDone |-> FALSE,      \* the context of the running Next is cancelled
     afterClose |-> FALSE,   \* Next returned after a Close
     callTaken |-> <<>>,     \* messages taken by the running Next, in order
     found |-> FALSE,        \* the running Next has found a relevant message
     pendingAtFind |-> {},   \* ids pending on w.ch when it found it
     cancelAt |-> -1,        \* Len(callTaken) when ctx was cancelled on a parked Next
     nexts |-> 0,
     closes |-> 0,
     drainers |-> 0,         \* drain goroutines of Close still running
     closeRes |-> "",        \* what the last Close returned
     deletes |-> 0,          \* calls of w.s.Delete so far
     lastDelete |-> ""]      \* what the last of them returned

\* configMapBucketPoller
PlInit ==
    [active |-> TRUE,
     closed |-> FALSE,       \* close(w.done) was called
     timer |-> FALSE,        \* the timer of the running Next has fired
     pcn |-> "idle",
     wake |-> "",
     res |-> "",
     ctxDone |-> FALSE,
     afterClose |-> FALSE,
     cancelAt |-> -1,        \* 0 when ctx was cancelled on a parked Next
     nexts |-> 0,
     closes |-> 0,
     panicked |-> FALSE]     \* close of a closed channel

InitWatch ==
    /\ StoreIdle
    /\ LoadIdle
    /\ sop = SopIdle
    /\ lc = <<>>
    /\ mg = <<>>
    /\ wt = <<>>
    /\ am = <<>>
    /\ bs = <<>>
    /\ mc = <<>>
    /\ cs = <<>>
    /\ served = <<>>
    /\ ac = <<>>
    /\ \/ pw = PwInit /\ pl = PlOff
       \/ pw = PwOff /\ pl = PlInit

\* msg.Ack() is left out
Ack_Dropped(acks, id) == acks

Ack(acks, id) == Put(acks, id, IF id \in DOMAIN acks THEN acks[id] + 1 ELSE 1)

\* a goroutine parked in a select is woken by the first of its cases that
\* becomes ready and takes that case, whatever becomes ready afterwards
Commit_Never(pcn, wake, ev) == wake

Commit(pcn, wake, ev) == IF pcn = "blocked" /\ wake = "" THEN ev ELSE wake

\* the select of Next is at case c: evaluating it with c ready, or woken by c
AtCase(p, c, ready) ==
    \/ p.pcn = "select" /\ ready
    \/ p.pcn = "blocked" /\ p.wake = c
    \/ p.pcn = "blocked" /\ p.wake = "" /\ ready

\* Receive hands a message to the callback, which blocks in w.ch <- msg
PwDeliver(kind) ==
    /\ pw.active
    /\ pw.run = "receive"
    /\ ~pw.cancelled
    /\ pw.delivered < MaxMsgs
    /\ pw' = [pw EXCEPT !.delivered = @ + 1,
                         !.sending = Append(@, [id |-> pw.delivered + 1,
                                                eventType |-> kind.eventType,
                                                objectId |-> kind.objectId])]

\* the status codes of the errors of Receive: the one run wraps as
\* retriable, and one that ends the retry loop
ReceiveErrCodes == {"Unknown", "PermissionDenied"}

\* run that returns an error with code Unknown as it is
RunAfterError_UnknownEndsLoop(code) == "closed"

\* run after Receive returned an error with this code: with Unknown the
\* error is wrapped as rpc.RetriableError and Receive is called again,
\* otherwise rpc.Retry returns and run closes w.ch
RunAfterError(code) == IF code = "Unknown" THEN "receive" ELSE "closed"

\* Receive returns a transport error once its callbacks have returned
PwReceiveError(code) ==
    /\ pw.active
    /\ pw.run = "receive"
    /\ ~pw.cancelled
    /\ pw.sending = <<>>
    /\ pw.nerr < MaxErrs
    /\ pw' = [pw EXCEPT !.nerr = @ + 1,
                         !.lastCode = code,
                         !.run = RunAfterError(code),
                         !.wake = IF RunAfterError(code) = "closed"
                                  THEN Commit(pw.pcn, pw.wake, "closed") ELSE @]

\* after w.cancel() Receive returns once its callbacks have returned, the
\* retry loop ends and run closes w.ch
PwRunCancelled ==
    /\ pw.active
    /\ pw.run = "receive"
    /\ pw.cancelled
    /\ pw.sending = <<>>
    /\ pw' = [pw EXCEPT !.run = "closed",
                         !.wake = Commit(pw.pcn, pw.wake, "closed")]

PwNextCall ==
    /\ pw.active
    /\ pw.pcn = "idle"
    /\ pw.nexts < MaxNexts
    /\ pw' = [pw EXCEPT !.pcn = "select", !.nexts = @ + 1]

\* the select of Next finds no case ready and parks the goroutine
PwNextPark ==
    /\ pw.active
    /\ pw.pcn = "select"
    /\ pw.sending = <<>>
    /\ pw.run # "closed"
    /\ ~pw.ctxDone
    /\ pw' = [pw EXCEPT !.pcn = "blocked", !.wake = ""]

\* the context of the running Next is cancelled
PwCtxCancel ==
    /\ pw.active
    /\ pw.pcn \in {"select", "blocked", "drain"}
    /\ ~pw.ctxDone
    /\ LET parked == pw.pcn = "blocked" /\ pw.wake = "" /\ pw.sending = <<>>
       IN  pw' = [pw EXCEPT !.ctxDone = TRUE,
                            !.wake = IF parked THEN Commit(pw.pcn, pw.wake, "ctx") ELSE @,
                            !.cancelAt = IF parked THEN Len(pw.callTaken) ELSE @]

PwReturn(p, r) == [p EXCEPT !.pcn = "returned", !.res = r, !.afterClose = p.closes > 0]

IdsOf(sending) == {sending[i].id : i \in 1..Len(sending)}

\* case msg, ok = <-w.ch with a message: msg.Ack(), then the two checks
PwNextRecv ==
    /\ pw.active
    /\ AtCase(pw, "msg", pw.sending # <<>>)
    /\ pw.sending # <<>>
    /\ LET msg == Head(pw.sending)
       IN  pw' = [pw EXCEPT !.sending = Tail(@),
                            !.taken = @ \cup {msg.id},
                            !.acks = Ack(@, msg.id),
                            !.callTaken = Append(@, msg),
                            !.found = Relevant(msg),
                            !.pendingAtFind = IF Relevant(msg)
                                              THEN IdsOf(Tail(pw.sending)) ELSE {},
                            !.wake = "",
                            !.pcn = IF Relevant(msg) THEN "drain" ELSE "select"]

\* case msg, ok = <-w.ch with !ok: return ErrWatcherClosed
PwNextClosed ==
    /\ pw.active
    /\ AtCase(pw, "closed", pw.run = "closed")
    /\ pw' = PwReturn(pw, "ErrWatcherClosed")

\* case <-ctx.Done(): return ctx.Err()
PwNextCtx ==
    /\ pw.active
    /\ AtCase(pw, "ctx", pw.ctxDone)
    /\ pw' = PwReturn(pw, "ctx")

\* the drain loop: case msg := <-w.ch with a message
PwNextDrainTake ==
    /\ pw.active
    /\ pw.pcn = "drain"
    /\ pw.sending # <<>>
    /\ LET msg == Head(pw.sending)
       IN  pw' = [pw EXCEPT !.sending = Tail(@),
                            !.taken = @ \cup {msg.id},
                            !.acks = Ack(@, msg.id),
                            !.callTaken = Append(@, msg)]

\* the drain loop: case msg := <-w.ch on the closed channel yields a nil
\* message, and msg.ID dereferences it
PwNextDrainNil ==
    /\ pw.active
    /\ pw.pcn = "drain"
    /\ pw.run = "closed"
    /\ pw' = PwReturn(pw, "panic")

\* the drain loop: default: return nil
PwNextDrainDone ==
    /\ pw.active
    /\ pw.pcn = "drain"
    /\ pw.sending = <<>>
    /\ pw.run # "closed"
    /\ pw' = PwReturn(pw, "nil")

\* the caller takes the result of Next
PwNextTaken ==
    /\ pw.active
    /\ pw.pcn = "returned"
    /\ pw.res # "panic"
    /\ pw' = [pw EXCEPT !.pcn = "idle", !.wake = "", !.res = "", !.ctxDone = FALSE,
                         !.afterClose = FALSE, !.callTaken = <<>>, !.found = FALSE,
                         !.pendingAtFind = {}, !.cancelAt = -1]

\* a Close that swallows the error of w.s.Delete
CloseReturn_Nil(deleteErr) == "nil"

\* return w.s.Delete(ctx)
CloseReturn(deleteErr) == deleteErr

\* Close: w.cancel(), the drain goroutine, w.s.Delete(ctx) and its error
PwClose(deleteOK) ==
    /\ pw.active
    /\ pw.closes < MaxCloses
    /\ pw' = [pw EXCEPT !.cancelled = TRUE,
                         !.closes = @ + 1,
                         !.drainers = @ + 1,
                         !.deletes = @ + 1,
                         !.lastDelete = IF deleteOK THEN "nil" ELSE "err",
                         !.closeRes = CloseReturn(IF deleteOK THEN "nil" ELSE "err")]

\* the drain goroutine of Close: for msg := range w.ch { msg.Ack() }
PwDrainTake ==
    /\ pw.active
    /\ pw.drainers > 0
    /\ pw.sending # <<>>
    /\ LET msg == Head(pw.sending)
       IN  pw' = [pw EXCEPT !.sending = Tail(@),
                            !.taken = @ \cup {msg.id},
                            !.acks = Ack(@, msg.id)]

\* the drain goroutine of Close ends when w.ch is closed
PwDrainEnd ==
    /\ pw.active
    /\ pw.drainers > 0
    /\ pw.run = "closed"
    /\ pw' = [pw EXCEPT !.drainers = @ - 1]

PlNextCall ==
    /\ pl.active
    /\ pl.pcn = "idle"
    /\ pl.nexts < MaxNexts
    /\ ~pl.panicked
    /\ pl' = [pl EXCEPT !.pcn = "select", !.nexts = @ + 1]

\* the select of Next finds no case ready and parks the goroutine
PlNextPark ==
    /\ pl.active
    /\ pl.pcn = "select"
    /\ ~pl.ctxDone
    /\ ~pl.closed
    /\ ~pl.timer
    /\ pl' = [pl EXCEPT !.pcn = "blocked", !.wake = ""]

PlCtxCancel ==
    /\ pl.active
    /\ pl.pcn \in {"select", "blocked"}
    /\ ~pl.ctxDone
    /\ LET parked == pl.pcn = "blocked" /\ pl.wake = ""
       IN  pl' = [pl EXCEPT !.ctxDone = TRUE,
                            !.wake = Commit(pl.pcn, pl.wake, "ctx"),
                            !.cancelAt = IF parked THEN 0 ELSE @]

\* time.After(dur) of the running Next fires
PlTimerFires ==
    /\ pl.active
    /\ pl.pcn \in {"select", "blocked"}
    /\ ~pl.timer
    /\ pl' = [pl EXCEPT !.timer = TRUE,
                         !.wake = Commit(pl.pcn, pl.wake, "timer")]

PlReturn(p, r) == [p EXCEPT !.pcn = "returned", !.res = r, !.afterClose = p.closed]

\* what Next returns when it finds w.done closed
PollerClosedError == "poller closed"

\* case <-ctx.Done(): return ctx.Err()
PlNextCtx ==
    /\ pl.active
    /\ AtCase(pl, "ctx", pl.ctxDone)
    /\ pl' = PlReturn(pl, "ctx")

\* case <-w.done: return errors.New("poller closed")
PlNextClosed ==
    /\ pl.active
    /\ AtCase(pl, "done", pl.closed)
    /\ pl' = PlReturn(pl, PollerClosedError)

\* case <-time.After(dur): return nil
PlNextTimer ==
    /\ pl.active
    /\ AtCase(pl, "timer", pl.timer)
    /\ pl' = PlReturn(pl, "nil")

PlNextTaken ==
    /\ pl.active
    /\ pl.pcn = "returned"
    /\ pl' = [pl EXCEPT !.pcn = "idle", !.wake = "", !.res = "", !.ctxDone = FALSE,
                         !.timer = FALSE, !.afterClose = FALSE, !.cancelAt = -1]

\* Close: close(w.done); closing it a second time panics
PlClose ==
    /\ pl.active
    /\ pl.closes < MaxCloses
    /\ ~pl.panicked
    /\ pl' = [pl EXCEPT !.closed = TRUE, !.closes = @ + 1, !.panicked = pl.closed,
                         !.wake = Commit(pl.pcn, pl.wake, "done")]

PwFrame ==
    UNCHANGED <<lastConfigs, versionIDSet, src, nchg, pc, ld, ret, hist, prev, sop, lc, mg, pl, wt, am, bs, mc, cs, served, ac>>

PlFrame ==
    UNCHANGED <<lastConfigs, versionIDSet, src, nchg, pc, ld, ret, hist, prev, sop, lc, mg, pw, wt, am, bs, mc, cs, served, ac>>

NextWatch ==
    \/ \E kind \in MsgKinds : PwDeliver(kind) /\ PwFrame
    \/ \E code \in ReceiveErrCodes : PwReceiveError(code) /\ PwFrame
    \/ PwRunCancelled /\ PwFrame
    \/ PwNextCall /\ PwFrame
    \/ PwNextPark /\ PwFrame
    \/ PwCtxCancel /\ PwFrame
    \/ PwNextRecv /\ PwFrame
    \/ PwNextClosed /\ PwFrame
    \/ PwNextCtx /\ PwFrame
    \/ PwNextDrainTake /\ PwFrame
    \/ PwNextDrainNil /\ PwFrame
    \/ PwNextDrainDone /\ PwFrame
    \/ PwNextTaken /\ PwFrame
    \/ \E deleteOK \in BOOLEAN : PwClose(deleteOK) /\ PwFrame
    \/ PwDrainTake /\ PwFrame
    \/ PwDrainEnd /\ PwFrame
    \/ PlNextCall /\ PlFrame
    \/ PlNextPark /\ PlFrame
    \/ PlTimerFires /\ PlFrame
    \/ PlCtxCancel /\ PlFrame
    \/ PlNextCtx /\ PlFrame
    \/ PlNextClosed /\ PlFrame
    \/ PlNextTimer /\ PlFrame
    \/ PlNextTaken /\ PlFrame
    \/ PlClose /\ PlFrame

SpecWatch == InitWatch /\ [][NextWatch]_vars

\* run and the drain goroutine of Close are goroutines of their own, which
\* the Go scheduler runs whenever they can take a step
SpecWatchFair ==
    /\ InitWatch
    /\ [][NextWatch]_vars
    /\ WF_vars(PwRunCancelled /\ PwFrame)
    /\ WF_vars(PwDrainTake /\ PwFrame)
    /\ WF_vars(PwDrainEnd /\ PwFrame)

-----------------------------------------------------------------------------
(* SpecSetup: one call of ConfigMapBucket.Watcher *)

\* strings.SplitN(s, "/", 2)
SplitFirstSlash(s) ==
    LET i == StringsIndex(s, "/")
    IN  IF i < 0 THEN <<s>>
        ELSE <<SubSeq(s, 1, i), SubSeq(s, i + 2, Len(s))>>

\* splitGCSPath without the check of the scheme
splitGCSPath_NoSchemeCheck(uri) ==
    LET p == SplitFirstSlash(uri)
    IN  [err |-> FALSE, bucket |-> p[1], path |-> IF Len(p) = 2 THEN p[2] ELSE ""]

splitGCSPath(uri) ==
    IF ~HasPrefix(uri, "gs://")
    THEN [err |-> TRUE, bucket |-> "", path |-> ""]
    ELSE LET p == SplitFirstSlash(SubSeq(uri, Len("gs://") + 1, Len(uri)))
         IN  IF Len(p) # 2
             THEN [err |-> FALSE, bucket |-> p[1], path |-> ""]
             ELSE [err |-> FALSE, bucket |-> p[1], path |-> p[2]]

\* cloudStorageNotification: the notification whose TopicID is the bucket's name
cloudStorageNotification(nm, bucket) ==
    IF nm.err THEN [err |-> TRUE, topic |-> ""]
    ELSE IF \E i \in 1..Len(nm.topics) : nm.topics[i] = bucket
         THEN [err |-> FALSE, topic |-> bucket]
         ELSE [err |-> TRUE, topic |-> ""]

\* what the services answer during one setup
SetupEnvs ==
    [uri : {"gs://bkt/cfg", "gs://bkt", "bkt/cfg"},
     nm : {[err |-> TRUE, topics |-> <<>>],
           [err |-> FALSE, topics |-> <<>>],
           [err |-> FALSE, topics |-> <<"other">>],
           [err |-> FALSE, topics |-> <<"other", "bkt">>]},
     topicExists : {"yes", "no", "err"},
     subscriberID : {"", "sub"},
     subExists : {"yes", "no", "err"},
     subConfig : {"same", "other", "err"},
     create : {"ok", "err"}]

SetupResult(err, calls) == [err |-> err, calls |-> calls]

\* pubsubWatcher: the error it returns ("" for none) and the service calls it made
pubsubWatcher(env) ==
    LET g == splitGCSPath(env.uri)
        n == cloudStorageNotification(env.nm, g.bucket)
        c1 == <<"Notifications">>
        c2 == Append(c1, "Topic.Exists")
        c3 == Append(c2, "Subscription.Exists")
        c4 == Append(c3, "Subscription.Config")
        c5 == Append(c3, "CreateSubscription")
    IN  IF g.err THEN SetupResult("uri", <<>>)
        ELSE IF n.err THEN SetupResult("notification", c1)
        ELSE IF env.topicExists # "yes" THEN SetupResult("topic", c2)
        ELSE IF env.subscriberID = "" THEN SetupResult("subscriberID", c2)
        ELSE IF env.subExists = "err" THEN SetupResult("subscription", c3)
        ELSE IF env.subExists = "yes"
             THEN IF env.subConfig = "err" THEN SetupResult("config", c4)
                  ELSE IF env.subConfig # "same" THEN SetupResult("mismatch", c4)
                  ELSE SetupResult("", c4)
             ELSE IF env.create = "err" THEN SetupResult("create", c5)
                  ELSE SetupResult("", c5)

WtInit(env) ==
    [env |-> env,
     called |-> FALSE,
     err |-> "",            \* the error of pubsubWatcher
     calls |-> <<>>,        \* the service calls of the setup
     metric |-> <<>>]       \* the values recorded for pubsubErrors

InitSetup ==
    /\ StoreIdle
    /\ LoadIdle
    /\ sop = SopIdle
    /\ lc = <<>>
    /\ mg = <<>>
    /\ pw = PwOff
    /\ pl = PlOff
    /\ am = <<>>
    /\ bs = <<>>
    /\ mc = <<>>
    /\ cs = <<>>
    /\ served = <<>>
    /\ ac = <<>>
    /\ \E env \in SetupEnvs : wt = WtInit(env)

\* Watcher: the push watcher (with run started) if pubsubWatcher succeeds,
\* else the poll watcher
WatcherCall ==
    /\ ~wt.called
    /\ LET r == pubsubWatcher(wt.env)
       IN  /\ wt' = [wt EXCEPT !.called = TRUE,
                               !.err = r.err,
                               !.calls = r.calls,
                               !.metric = Append(@, IF r.err = "" THEN 0 ELSE 1)]
           /\ pw' = IF r.err = "" THEN PwInit ELSE PwOff
           /\ pl' = IF r.err = "" THEN PlOff ELSE PlInit

SetupFrame ==
    UNCHANGED <<lastConfigs, versionIDSet, src, nchg, pc, ld, ret, hist, prev, sop, lc, mg, am, bs, mc, cs, served, ac>>

NextSetup ==
    \/ WatcherCall /\ SetupFrame
    \/ PwNextCall /\ PwFrame
    \/ PlNextCall /\ PlFrame

SpecSetup == InitSetup /\ [][NextSetup]_vars

-----------------------------------------------------------------------------
(* SpecAuthdb: authdb Client.IsMember against a server that answers
   CheckMembership with some errors first *)

\* the status codes the server answers with
RespCodes == {"Unavailable", "InvalidArgument"}

\* the errors of the server before its answer, in order
RespErrLists == UNION {[1..k -> RespCodes] : k \in 0..MaxRespErrs}

\* rpc.Retry{}.Do calls f again after an error with this code
Retriable(code) == code = "Unavailable"

\* IsMember that returns the content of resp also after an error
IsMemberResult_IgnoresError(err, isMember) == [got |-> isMember, err |-> ""]

\* what IsMember returns once rpc.Retry{}.Do returned err
IsMemberResult(err, isMember) ==
    IF err # "" THEN [got |-> FALSE, err |-> err]
    ELSE [got |-> isMember, err |-> ""]

AmNoResult == [got |-> FALSE, err |-> ""]

InitAuthdb ==
    /\ StoreIdle
    /\ LoadIdle
    /\ sop = SopIdle
    /\ lc = <<>>
    /\ mg = <<>>
    /\ pw = <<>>
    /\ pl = <<>>
    /\ wt = <<>>
    /\ bs = <<>>
    /\ mc = <<>>
    /\ cs = <<>>
    /\ served = <<>>
    /\ ac = <<>>
    /\ \E errs \in RespErrLists, member \in BOOLEAN :
          am = [respErrs0 |-> errs,     \* the errors the server was set up with
                respErrs |-> errs,      \* those it has not answered with yet
                member |-> member,      \* the answer of the server
                pcm |-> "idle",         \* the caller of IsMember
                attempts |-> 0,         \* calls of c.Client.Call
                isMember |-> FALSE,     \* resp.IsMember of the client
                doErr |-> "",           \* what rpc.Retry{}.Do returned
                result |-> AmNoResult]

\* IsMember up to rpc.Retry{}.Do
AmIsMember ==
    /\ am.pcm = "idle"
    /\ am' = [am EXCEPT !.pcm = "retry"]

\* one call of f by rpc.Retry{}.Do: c.Client.Call, answered by CheckMembership
AmAttempt ==
    /\ am.pcm = "retry"
    /\ IF am.respErrs # <<>>
       THEN LET code == Head(am.respErrs)
            IN  am' = [am EXCEPT !.respErrs = Tail(@),
                                 !.attempts = @ + 1,
                                 !.doErr = IF Retriable(code) THEN "" ELSE code,
                                 !.pcm = IF Retriable(code) THEN "retry" ELSE "return"]
       ELSE am' = [am EXCEPT !.attempts = @ + 1,
                             !.isMember = am.member,
                             !.doErr = "",
                             !.pcm = "return"]

\* if err != nil { return false, err }; return resp.IsMember, nil
AmReturn ==
    /\ am.pcm = "return"
    /\ am' = [am EXCEPT !.pcm = "done",
                        !.result = IsMemberResult(am.doErr, am.isMember)]

AmFrame ==
    UNCHANGED <<lastConfigs, versionIDSet, src, nchg, pc, ld, ret, hist, prev, sop, lc, mg,
                pw, pl, wt, bs, mc, cs, served, ac>>

NextAuthdb ==
    \/ AmIsMember /\ AmFrame
    \/ AmAttempt /\ AmFrame
    \/ AmReturn /\ AmFrame

SpecAuthdb == InitAuthdb /\ [][NextAuthdb]_vars

-----------------------------------------------------------------------------
(* SpecBS: one bytestream Writer (Create, Write, Close), the client-streaming
   Write call it sends on and the server of that call *)

\* the chunk size, scaled down from the program's
maxChunkSizeBytes == 2

resourceName == "resource-name"

Bytes == {"a", "b"}

DataSet == UNION {[1..k -> Bytes] : k \in 0..MaxData}

\* the errors the server is set up to answer a write with
SrvErrs == {"", "AlreadyExists", "Unavailable"}

MinOf(a, b) == IF a < b THEN a ELSE b

\* one Send carries the whole buffer
Chunk_WholeBuffer(buf) == buf

\* the part of buf that one Send carries
Chunk(buf) == SubSeq(buf, 1, MinOf(Len(buf), maxChunkSizeBytes))

\* only a response of the server counts as stored
Stored_OnlyResponse(status) == status = "ok"

\* the status of an ended stream that means the resource is stored
Stored(status) == status \in {"ok", "AlreadyExists"}

\* stubByteStreamServer.Write: what one received request does to the server
SrvWrite(s, req) ==
    IF req.name # s.resourceName THEN [s EXCEPT !.status = "bad resource name"]
    ELSE IF s.finished THEN [s EXCEPT !.status = "bad write to finished client"]
    ELSE IF req.off # Len(s.buf) THEN [s EXCEPT !.status = "bad write offset"]
    ELSE IF Len(req.data) > maxChunkSizeBytes THEN [s EXCEPT !.status = "too large data"]
    ELSE LET t == [s EXCEPT !.buf = @ \o req.data]
         IN  IF s.err # "" THEN [t EXCEPT !.status = s.err]
             ELSE IF s.early # 0 THEN [t EXCEPT !.status = "ok", !.committed = s.early]
             ELSE IF req.fin
                  THEN [t EXCEPT !.finished = TRUE, !.status = "ok", !.committed = Len(t.buf)]
                  ELSE t

InitBS ==
    /\ StoreIdle
    /\ LoadIdle
    /\ sop = SopIdle
    /\ lc = <<>>
    /\ mg = <<>>
    /\ pw = <<>>
    /\ pl = <<>>
    /\ wt = <<>>
    /\ am = <<>>
    /\ mc = <<>>
    /\ cs = <<>>
    /\ served = <<>>
    /\ ac = <<>>
    /\ \E data \in DataSet, err \in SrvErrs, early \in BOOLEAN :
          bs = [data |-> data,          \* what the caller copies to the Writer
                rest |-> data,          \* the part not yet passed to Write
                srv |-> [resourceName |-> resourceName,
                         buf |-> <<>>,
                         err |-> err,
                         finished |-> FALSE,
                         early |-> IF early /\ err = "" THEN Len(data) ELSE 0,
                         status |-> "",     \* how Write of the server returned, "" while it runs
                         committed |-> 0],
                inflight |-> <<>>,      \* requests sent and not yet received
                seen |-> FALSE,         \* the client side knows the stream ended
                name |-> resourceName,  \* Writer.name
                offset |-> 0,           \* Writer.offset
                ok |-> FALSE,           \* Writer.ok
                pcw |-> "ready",        \* the caller: ready, write, closing, closed
                wbuf |-> <<>>,          \* the part of the buffer of Write not yet sent
                errs |-> <<>>,          \* the errors Write and Close returned
                sent |-> <<>>,          \* every request given to Send
                sentAfterOk |-> FALSE]

WriteRequest(name, off, data, fin) == [name |-> name, off |-> off, data |-> data, fin |-> fin]

\* Writer.Write(buf) is called with the next k bytes
BsWrite(k) ==
    /\ bs.pcw = "ready"
    /\ bs.errs = <<>>
    /\ k \in 1..Len(bs.rest)
    /\ IF bs.ok
       THEN bs' = [bs EXCEPT !.rest = SubSeq(@, k + 1, Len(@))]
       ELSE bs' = [bs EXCEPT !.rest = SubSeq(@, k + 1, Len(@)),
                             !.wbuf = SubSeq(bs.rest, 1, k),
                             !.pcw = "write"]

\* one round of the loop of Write: Send of the next chunk
BsSend ==
    /\ bs.pcw = "write"
    /\ IF bs.seen
       THEN \* Send returns io.EOF; the status of the stream decides
            IF Stored(bs.srv.status)
            THEN bs' = [bs EXCEPT !.ok = TRUE, !.wbuf = <<>>, !.pcw = "ready"]
            ELSE bs' = [bs EXCEPT !.errs = Append(@, bs.srv.status), !.wbuf = <<>>,
                                  !.pcw = "ready"]
       ELSE LET c == Chunk(bs.wbuf)
                req == WriteRequest(bs.name, bs.offset, c, FALSE)
                left == SubSeq(bs.wbuf, Len(c) + 1, Len(bs.wbuf))
            IN  bs' = [bs EXCEPT !.inflight = Append(@, req),
                                 !.sent = Append(@, req),
                                 !.sentAfterOk = @ \/ bs.ok,
                                 !.offset = @ + Len(c),
                                 !.wbuf = left,
                                 !.pcw = IF left = <<>> THEN "ready" ELSE "write"]

\* the server receives the next request of the stream
BsSrvRecv ==
    /\ bs.srv.status = ""
    /\ bs.inflight # <<>>
    /\ bs' = [bs EXCEPT !.srv = SrvWrite(@, Head(bs.inflight)),
                        !.inflight = Tail(@)]

\* the end of the stream reaches the client
BsStreamEnds ==
    /\ bs.srv.status # ""
    /\ ~bs.seen
    /\ bs' = [bs EXCEPT !.seen = TRUE, !.inflight = <<>>]

\* Writer.Close up to CloseAndRecv
BsClose ==
    /\ bs.pcw = "ready"
    /\ IF bs.ok
       THEN bs' = [bs EXCEPT !.pcw = "closed"]
       ELSE IF bs.seen
            THEN bs' = [bs EXCEPT !.pcw = "closing"]
            ELSE LET req == WriteRequest(bs.name, bs.offset, <<>>, TRUE)
                 IN  bs' = [bs EXCEPT !.inflight = Append(@, req),
                                      !.sent = Append(@, req),
                                      !.sentAfterOk = @ \/ bs.ok,
                                      !.pcw = "closing"]

\* CloseAndRecv returns with the status of the stream
BsCloseAndRecv ==
    /\ bs.pcw = "closing"
    /\ bs.srv.status # ""
    /\ IF Stored(bs.srv.status)
       THEN bs' = [bs EXCEPT !.ok = @ \/ ~bs.srv.finished, !.seen = TRUE, !.inflight = <<>>,
                             !.pcw = "closed"]
       ELSE bs' = [bs EXCEPT !.errs = Append(@, bs.srv.status), !.seen = TRUE,
                             !.inflight = <<>>, !.pcw = "closed"]

BsFrame ==
    UNCHANGED <<lastConfigs, versionIDSet, src, nchg, pc, ld, ret, hist, prev, sop, lc, mg,
                pw, pl, wt, am, mc, cs, served, ac>>

NextBS ==
    \/ \E k \in 1..MaxData : BsWrite(k) /\ BsFrame
    \/ BsSend /\ BsFrame
    \/ BsSrvRecv /\ BsFrame
    \/ BsStreamEnds /\ BsFrame
    \/ BsClose /\ BsFrame
    \/ BsCloseAndRecv /\ BsFrame

SpecBS == InitBS /\ [][NextBS]_vars

-----------------------------------------------------------------------------
(* SpecLock: two goroutines that call Load on one ConfigMapLoader, each call
   of a ConfigStore method split into its entry and its return *)

Goroutines == {"g1", "g2"}

LockNames == {"clang", "gcc"}

\* the token maps Seqs returns to a call of Load
LockSeqs ==
    {[n \in LockNames |-> "a"],
     [n \in {"clang"} |-> "b"],
     [n \in {} |-> ""]}

\* the store at the start: empty, or as the first token map has left it
LockStores ==
    {EmptyStore,
     [n \in LockNames |-> [seq |-> "a", configs |-> <<>>]]}

CsIdle(seqs) ==
    [pc |-> "list",         \* the next ConfigStore call of this Load
     inside |-> FALSE,      \* the goroutine is inside that call
     arg |-> "",            \* the name the call was made with
     seqs |-> seqs,         \* what Seqs returns to this Load
     todo |-> {},           \* names of seqs the loop has not visited
     updated |-> {},
     deleted |-> {},
     resp |-> <<>>]

InitLock ==
    /\ StoreIdle
    /\ LoadIdle
    /\ sop = SopIdle
    /\ lc = <<>>
    /\ mg = <<>>
    /\ pw = <<>>
    /\ pl = <<>>
    /\ wt = <<>>
    /\ am = <<>>
    /\ bs = <<>>
    /\ mc = <<>>
    /\ served = <<>>
    /\ ac = <<>>
    /\ \E st \in LockStores, sq \in [Goroutines -> LockSeqs] :
          cs = [lastConfigs |-> st,
                th |-> [g \in Goroutines |-> CsIdle(sq[g])],
                log |-> <<>>,       \* the goroutines of the Set and Delete calls, in order
                fatal |-> FALSE]    \* the runtime has stopped the process

\* the position of Load after the loop over seqs, and after each later loop
CsAfter(t) ==
    IF t.pc \in {"list", "seq"} /\ t.todo # {} THEN "seq"
    ELSE IF t.pc \in {"list", "seq"} /\ t.updated = {} /\ t.deleted = {} THEN "done"
    ELSE IF t.pc \in {"list", "seq", "delete"} /\ t.deleted # {} THEN "delete"
    ELSE IF t.pc \in {"list", "seq", "delete", "set"} /\ t.updated # {} THEN "set"
    ELSE IF t.pc = "resp" THEN "done"
    ELSE "resp"

\* the names the next call can be made with (Go ranges over a map in any order)
CsArgs(t) ==
    CASE t.pc = "seq" -> t.todo
      [] t.pc = "delete" -> t.deleted
      [] t.pc = "set" -> t.updated
      [] OTHER -> {""}

\* goroutine g enters its next ConfigStore method
CsCall(g) ==
    /\ ~cs.fatal
    /\ cs.th[g].pc # "done"
    /\ ~cs.th[g].inside
    /\ \E n \in CsArgs(cs.th[g]) :
          cs' = [cs EXCEPT !.th[g].inside = TRUE, !.th[g].arg = n]

\* goroutine g returns from the method it is in
CsReturn(g) ==
    /\ ~cs.fatal
    /\ cs.th[g].inside
    /\ LET t == cs.th[g]
           n == t.arg
           u == CASE t.pc = "list" ->
                       [t EXCEPT !.deleted = {List(cs.lastConfigs)[i] :
                                                 i \in 1..Len(List(cs.lastConfigs))},
                                 !.todo = DOMAIN t.seqs]
                  [] t.pc = "seq" ->
                       [t EXCEPT !.deleted = @ \ {n},
                                 !.todo = @ \ {n},
                                 !.updated = IF StoreSeq(cs.lastConfigs, n) # t.seqs[n]
                                             THEN @ \cup {n} ELSE @]
                  [] t.pc = "delete" -> [t EXCEPT !.deleted = @ \ {n}]
                  [] t.pc = "set" -> [t EXCEPT !.updated = @ \ {n}]
                  [] t.pc = "resp" -> [t EXCEPT !.resp = List(cs.lastConfigs)]
           st == CASE t.pc = "delete" -> Delete(cs.lastConfigs, n)
                   [] t.pc = "set" -> Set(cs.lastConfigs, n, t.seqs[n], <<>>)
                   [] OTHER -> cs.lastConfigs
       IN  cs' = [cs EXCEPT !.lastConfigs = st,
                            !.th[g] = [u EXCEPT !.inside = FALSE, !.arg = "",
                                                !.pc = CsAfter(u)],
                            !.log = IF t.pc \in {"delete", "set"} THEN Append(@, g) ELSE @]

\* a goroutine is inside Set or Delete while another is inside any method
CsConflict ==
    \E g, h \in Goroutines :
        /\ g # h
        /\ cs.th[g].inside
        /\ cs.th[g].pc \in {"delete", "set"}
        /\ cs.th[h].inside

\* the runtime detects the concurrent access to the map and ends the process
CsFatal ==
    /\ ~cs.fatal
    /\ CsConflict
    /\ cs' = [cs EXCEPT !.fatal = TRUE]

LockFrame ==
    UNCHANGED <<lastConfigs, versionIDSet, src, nchg, pc, ld, ret, hist, prev, sop, lc, mg,
                pw, pl, wt, am, bs, mc, served, ac>>

NextLock ==
    \/ \E g \in Goroutines : CsCall(g) /\ LockFrame
    \/ \E g \in Goroutines : CsReturn(g) /\ LockFrame
    \/ CsFatal /\ LockFrame

SpecLock == InitLock /\ [][NextLock]_vars

-----------------------------------------------------------------------------
(* SpecAdmit: memoryCheck.Admit of the frontend *)

\* the memoryCheck of main: the zero value, or the thresholds of limit and margin
memoryCheckOf(limit, margin) ==
    [hardThreshold |-> limit - margin, softThreshold |-> limit - 2 * margin]

MemoryChecks ==
    {[hardThreshold |-> 0, softThreshold |-> 0]}
        \cup {memoryCheckOf(limit, margin) : limit \in 0..MaxLimit, margin \in 0..MaxMargin}

InitAdmit ==
    /\ StoreIdle
    /\ LoadIdle
    /\ sop = SopIdle
    /\ lc = <<>>
    /\ mg = <<>>
    /\ pw = <<>>
    /\ pl = <<>>
    /\ wt = <<>>
    /\ am = <<>>
    /\ bs = <<>>
    /\ cs = <<>>
    /\ served = <<>>
    /\ ac = <<>>
    /\ \E m \in MemoryChecks, rss \in 0..MaxRss :
          mc = [hardThreshold |-> m.hardThreshold,
                softThreshold |-> m.softThreshold,
                rss |-> rss,            \* what server.ResidentMemorySize() returns
                gcRan |-> FALSE,        \* server.GC was called
                rssGC |-> 0,            \* what server.GC returned
                unhealthy |-> FALSE,    \* healthz.SetUnhealthy was called
                pcm |-> "idle",
                res |-> ""]

\* Admit up to the call of server.GC
AdmitBegin ==
    /\ mc.pcm = "idle"
    /\ IF mc.softThreshold <= 0 \/ mc.rss <= mc.softThreshold
       THEN mc' = [mc EXCEPT !.pcm = "done", !.res = "nil"]
       ELSE mc' = [mc EXCEPT !.pcm = "gc"]

\* the error of Admit when the size after GC is rss
AdmitAfterGC(m, rss) ==
    IF rss <= m.softThreshold THEN "nil"
    ELSE IF m.hardThreshold > 0 /\ rss > m.hardThreshold THEN "ResourceExhausted"
    ELSE "Unavailable"

\* rss = server.GC(ctx) and the rest of Admit
AdmitGC ==
    /\ mc.pcm = "gc"
    /\ \E rss \in 0..MaxRss :
          LET err == AdmitAfterGC(mc, rss)
          IN  mc' = [mc EXCEPT !.pcm = "done",
                               !.gcRan = TRUE,
                               !.rssGC = rss,
                               !.unhealthy = (err # "nil"),
                               !.res = err]

AdmitFrame ==
    UNCHANGED <<lastConfigs, versionIDSet, src, nchg, pc, ld, ret, hist, prev, sop, lc, mg,
                pw, pl, wt, am, bs, cs, served, ac>>

NextAdmit ==
    \/ AdmitBegin /\ AdmitFrame
    \/ AdmitGC /\ AdmitFrame

SpecAdmit == InitAdmit /\ [][NextAdmit]_vars

-----------------------------------------------------------------------------
(* SpecACL: acl.Checker (src/auth/acl/checker.go), its Set and CheckToken
   called one after the other *)

\* strings.HasSuffix(s, suffix)
HasSuffix(s, suffix) ==
    /\ Len(suffix) <= Len(s)
    /\ SubSeq(s, Len(s) - Len(suffix) + 1, Len(s)) = suffix

\* pb.Group
Group(id, audience, emails, domains, sa, reject) ==
    [id |-> id, audience |-> audience, emails |-> emails, domains |-> domains,
     serviceAccount |-> sa, reject |-> reject]

NilGroup == Group("", "", <<>>, <<>>, "", FALSE)

GUser == Group("user", "aud1", <<"u@x">>, <<>>, "sa1", FALSE)

GUser2 == Group("user2", "aud1", <<"u@x">>, <<>>, "sa2", FALSE)

GDomX == Group("domx", "", <<>>, <<"x">>, "", FALSE)

GBanned == Group("banned", "", <<"v@y">>, <<>>, "", TRUE)

GDomY == Group("domy", "aud2", <<"w@zx">>, <<"y">>, "sa1", FALSE)

GMembers == Group("members", "", <<>>, <<>>, "sa2", FALSE)

\* the ACLs handed to Set, as their lists of groups
AclConfigs ==
    {<<>>,
     <<GUser>>,
     <<GUser2>>,
     <<GUser, GDomX>>,
     <<GDomX, GUser>>,
     <<GBanned, GDomY>>,
     <<GDomY, GBanned>>,
     <<GMembers, GDomX>>,
     <<GUser, GMembers>>,
     <<GDomY, GUser, GMembers>>}

SANames == {"sa1", "sa2"}

\* what account.Pool.New returns for each name: the account with these
\* credentials, or an error
Pools == [SANames -> {"k1", "k2", "err"}]

\* auth.TokenInfo of the request
TokenInfos == [email : {"u@x", "v@y", "w@zx"}, audience : {"aud1", "aud2"}]

\* the AuthDB of the checker: none, or the answers of IsMember for the
\* group "members"
NilAuthDB == [nil |-> TRUE, member |-> <<>>]

AuthDBs ==
    {NilAuthDB,
     [nil |-> FALSE, member |-> [e \in {"u@x", "v@y", "w@zx"} |->
                                   CASE e = "u@x" -> "yes"
                                     [] e = "v@y" -> "no"
                                     [] OTHER -> "err"]]}

RECURSIVE AnyEmail(_, _)
\* for _, e := range emails { if email == e { return true } }
AnyEmail(email, emails) ==
    IF Len(emails) = 0 THEN FALSE
    ELSE IF email = Head(emails) THEN TRUE
    ELSE AnyEmail(email, Tail(emails))

RECURSIVE AnyDomain(_, _)
\* for _, d := range domains { if strings.HasSuffix(email, "@"+d) { return true } }
AnyDomain(email, domains) ==
    IF Len(domains) = 0 THEN FALSE
    ELSE IF HasSuffix(email, "@" \o Head(domains)) THEN TRUE
    ELSE AnyDomain(email, Tail(domains))

\* match that takes a domain for a suffix of the address without the "@"
match_SuffixWithoutAt(email, emails, domains) ==
    \/ AnyEmail(email, emails)
    \/ \E i \in 1..Len(domains) : HasSuffix(email, domains[i])

\* match(email, emails, domains)
match(email, emails, domains) ==
    IF AnyEmail(email, emails) THEN TRUE ELSE AnyDomain(email, domains)

\* checkGroup: "true", "false", or "err" for an error of AuthDB.IsMember
checkGroup(tokenInfo, g, authDB) ==
    IF g.audience # "" /\ tokenInfo.audience # g.audience THEN "false"
    ELSE IF Len(g.emails) = 0 /\ Len(g.domains) = 0 /\ ~authDB.nil
    THEN CASE authDB.member[tokenInfo.email] = "err" -> "err"
           [] authDB.member[tokenInfo.email] = "yes" -> "true"
           [] OTHER -> "false"
    ELSE IF match(tokenInfo.email, g.emails, g.domains) THEN "true" ELSE "false"

RECURSIVE FindGroup_LastMatch(_, _, _)
\* FindGroup that goes on after a match and returns the last group matching
FindGroup_LastMatch(groups, tokenInfo, authDB) ==
    IF Len(groups) = 0 THEN [kind |-> "none", g |-> NilGroup]
    ELSE LET rest == FindGroup_LastMatch(Tail(groups), tokenInfo, authDB)
             ok == checkGroup(tokenInfo, Head(groups), authDB)
         IN  IF ok = "err" THEN [kind |-> "err", g |-> NilGroup]
             ELSE IF rest.kind # "none" THEN rest
             ELSE IF ok = "true" THEN [kind |-> "group", g |-> Head(groups)]
             ELSE rest

RECURSIVE FindGroup(_, _, _)
\* Checker.FindGroup over c.config.GetGroups()
FindGroup(groups, tokenInfo, authDB) ==
    IF Len(groups) = 0 THEN [kind |-> "none", g |-> NilGroup]
    ELSE LET ok == checkGroup(tokenInfo, Head(groups), authDB)
         IN  IF ok = "err" THEN [kind |-> "err", g |-> NilGroup]
             ELSE IF ok = "true" THEN [kind |-> "group", g |-> Head(groups)]
             ELSE FindGroup(Tail(groups), tokenInfo, authDB)

\* the results of CheckToken: group id, token, status code ("OK" for a nil
\* error, "Backend" for the error of AuthDB, "Context" for the error of ctx)
TokenResult(id, token, code) == [id |-> id, token |-> token, code |-> code]

\* the token of the caller, and the token an account with these credentials
\* yields
CallerToken == "euc"

TokenOf(name, key) == name \o "/" \o key

\* the part of CheckToken after FindGroup, with the entry of c.accounts it
\* read ("" for no entry), whether sa.Token succeeds and whether ctx.Err()
\* is set when FindGroup has returned an error
AfterFindGroup(found, entry, tokenOK, ctxErr) ==
    IF found.kind # "group" /\ ctxErr THEN TokenResult("", "", "Context")
    ELSE IF found.kind = "err" THEN TokenResult("", "", "Backend")
    ELSE IF found.kind = "none" THEN TokenResult("", "", "PermissionDenied")
    ELSE IF found.g.reject THEN TokenResult(found.g.id, "", "PermissionDenied")
    ELSE IF found.g.serviceAccount = "" THEN TokenResult(found.g.id, CallerToken, "OK")
    ELSE IF entry = "" THEN TokenResult(found.g.id, "", "Internal")
    ELSE IF ~tokenOK THEN TokenResult(found.g.id, "", "Internal")
    ELSE TokenResult(found.g.id, TokenOf(found.g.serviceAccount, entry), "OK")

\* c.accounts[name], "" for the nil account of a missing name
AccountOf(accounts, name) == IF name \in DOMAIN accounts THEN accounts[name] ELSE ""

\* Checker.CheckToken
CheckToken(c, tokenInfo, tokenOK, ctxErr) ==
    LET found == FindGroup(c.config, tokenInfo, c.authDB)
    IN  AfterFindGroup(found, AccountOf(c.accounts, found.g.serviceAccount), tokenOK, ctxErr)

\* one iteration of the loop of Set over config.Groups
SetStep(st, g, pool) ==
    IF st.err THEN st
    ELSE IF g.serviceAccount = "" THEN st
    ELSE IF g.serviceAccount \in st.seen THEN st
    ELSE IF pool[g.serviceAccount] = "err" THEN [st EXCEPT !.err = TRUE]
    ELSE [st EXCEPT !.seen = @ \cup {g.serviceAccount},
                    !.accounts = IF AccountOf(@, g.serviceAccount) = pool[g.serviceAccount]
                                 THEN @
                                 ELSE Put(@, g.serviceAccount, pool[g.serviceAccount])]

RECURSIVE SetLoop(_, _, _)
\* for _, g := range config.Groups { ... }
SetLoop(st, groups, pool) ==
    IF Len(groups) = 0 THEN st
    ELSE SetLoop(SetStep(st, Head(groups), pool), Tail(groups), pool)

\* Checker.Set: config, accounts and the error it returns
CheckerSet(c, config, pool) ==
    LET st == SetLoop([err |-> FALSE, seen |-> {}, accounts |-> c.accounts], config, pool)
    IN  IF st.err
        THEN [config |-> c.config, accounts |-> st.accounts, err |-> TRUE]
        ELSE [config |-> config, accounts |-> Restrict(st.accounts, st.seen), err |-> FALSE]

NoCall == [op |-> "none", config |-> <<>>, pool |-> <<>>, err |-> FALSE,
           before |-> <<>>, tokenInfo |-> <<>>, tokenOK |-> FALSE, ctxErr |-> FALSE,
           res |-> <<>>]

\* the checker before its first Set: no config, no accounts
InitACL ==
    /\ StoreIdle
    /\ LoadIdle
    /\ sop = SopIdle
    /\ lc = <<>>
    /\ mg = <<>>
    /\ pw = <<>>
    /\ pl = <<>>
    /\ wt = <<>>
    /\ am = <<>>
    /\ bs = <<>>
    /\ mc = <<>>
    /\ cs = <<>>
    /\ served = <<>>
    /\ \E db \in AuthDBs :
          ac = [config |-> <<>>, accounts |-> <<>>, authDB |-> db, last |-> NoCall]

\* a call of Set
AclSet(config, pool) ==
    LET r == CheckerSet(ac, config, pool)
    IN  ac' = [ac EXCEPT !.config = r.config,
                         !.accounts = r.accounts,
                         !.last = [NoCall EXCEPT !.op = "Set", !.config = config,
                                                 !.pool = pool, !.err = r.err,
                                                 !.before = [config |-> ac.config,
                                                             accounts |-> ac.accounts]]]

\* a call of CheckToken
AclCheckToken(tokenInfo, tokenOK, ctxErr) ==
    ac' = [ac EXCEPT !.last = [NoCall EXCEPT !.op = "CheckToken",
                                             !.tokenInfo = tokenInfo,
                                             !.tokenOK = tokenOK,
                                             !.ctxErr = ctxErr,
                                             !.res = CheckToken(ac, tokenInfo, tokenOK,
                                                                ctxErr)]]

AclFrame ==
    UNCHANGED <<lastConfigs, versionIDSet, src, nchg, pc, ld, ret, hist, prev, sop, lc, mg,
                pw, pl, wt, am, bs, mc, cs, served>>

NextACL ==
    \/ \E config \in AclConfigs, pool \in Pools : AclSet(config, pool) /\ AclFrame
    \/ \E tokenInfo \in TokenInfos, tokenOK \in BOOLEAN, ctxErr \in BOOLEAN :
          AclCheckToken(tokenInfo, tokenOK, ctxErr) /\ AclFrame

SpecACL == InitACL /\ [][NextACL]_vars

-----------------------------------------------------------------------------
(* SpecACLRace: one goroutine that calls Checker.Set and one that calls
   Checker.CheckToken, each access to c.accounts split into its begin and
   its end *)

\* the ACLs and the pools of the concurrent runs
RaceConfigs == {<<GUser>>, <<GUser2>>, <<GUser, GMembers>>, <<GDomX, GUser>>}

RacePools ==
    {[n \in SANames |-> "k1"],
     [n \in SANames |-> IF n = "sa1" THEN "k2" ELSE "k1"],
     [n \in SANames |-> IF n = "sa1" THEN "k1" ELSE "err"]}

RaceTokenInfos == {[email |-> "u@x", audience |-> "aud1"],
                   [email |-> "v@y", audience |-> "aud1"]}

SetIdle == [pc |-> "idle", config |-> <<>>, pool |-> <<>>, i |-> 0, seen |-> {},
            next |-> <<>>, err |-> FALSE]

CkIdle == [pc |-> "idle", found |-> [kind |-> "none", g |-> NilGroup], snap |-> "",
           entry |-> "", res |-> <<>>]

InitACLRace ==
    /\ StoreIdle
    /\ LoadIdle
    /\ sop = SopIdle
    /\ lc = <<>>
    /\ mg = <<>>
    /\ pw = <<>>
    /\ pl = <<>>
    /\ wt = <<>>
    /\ am = <<>>
    /\ bs = <<>>
    /\ mc = <<>>
    /\ cs = <<>>
    /\ served = <<>>
    /\ ac = [config |-> <<>>, accounts |-> <<>>, authDB |-> NilAuthDB,
             mu |-> "free",     \* "w" while Set holds c.mu
             set |-> SetIdle,   \* the goroutine that calls Set
             ck |-> CkIdle,     \* the goroutine that calls CheckToken
             nsets |-> 0,
             nchecks |-> 0,
             fatal |-> FALSE]   \* the runtime has stopped the process

\* Set: c.mu.Lock()
RaceSetLock(config, pool) ==
    /\ ~ac.fatal
    /\ ac.set.pc = "idle"
    /\ ac.mu = "free"
    /\ ac.nsets < MaxSets
    /\ ac' = [ac EXCEPT !.mu = "w",
                        !.nsets = @ + 1,
                        !.set = [SetIdle EXCEPT !.pc = "loop", !.config = config,
                                                !.pool = pool, !.i = 1]]

\* Set: one iteration of the loop over config.Groups, up to the assignment
\* to c.accounts if it makes one; the error of Pool.New ends the call
RaceSetIter ==
    /\ ~ac.fatal
    /\ ac.set.pc = "loop"
    /\ ac.set.i <= Len(ac.set.config)
    /\ LET st == [err |-> FALSE, seen |-> ac.set.seen, accounts |-> ac.accounts]
           after == SetStep(st, ac.set.config[ac.set.i], ac.set.pool)
       IN  IF after.err
           THEN ac' = [ac EXCEPT !.mu = "free", !.set = [SetIdle EXCEPT !.err = TRUE]]
           ELSE IF after.accounts # ac.accounts
           THEN ac' = [ac EXCEPT !.set.pc = "write", !.set.seen = after.seen,
                                 !.set.next = after.accounts]
           ELSE ac' = [ac EXCEPT !.set.seen = after.seen, !.set.i = @ + 1]

\* Set: the assignment c.accounts[g.ServiceAccount] = sa is done
RaceSetWritten ==
    /\ ~ac.fatal
    /\ ac.set.pc = "write"
    /\ ac' = [ac EXCEPT !.accounts = ac.set.next,
                        !.set.pc = "loop", !.set.next = <<>>, !.set.i = @ + 1]

\* Set: the loop over c.accounts begins to delete an account that was not seen
RaceSetDelete ==
    /\ ~ac.fatal
    /\ ac.set.pc = "loop"
    /\ ac.set.i > Len(ac.set.config)
    /\ \E sa \in DOMAIN ac.accounts \ ac.set.seen :
          ac' = [ac EXCEPT !.set.pc = "delete",
                           !.set.next = Restrict(ac.accounts, DOMAIN ac.accounts \ {sa})]

\* Set: delete(c.accounts, sa) is done
RaceSetDeleted ==
    /\ ~ac.fatal
    /\ ac.set.pc = "delete"
    /\ ac' = [ac EXCEPT !.accounts = ac.set.next,
                        !.set.pc = "loop", !.set.next = <<>>]

\* Set: c.config = proto.Clone(config), return nil and the deferred Unlock
RaceSetReturn ==
    /\ ~ac.fatal
    /\ ac.set.pc = "loop"
    /\ ac.set.i > Len(ac.set.config)
    /\ DOMAIN ac.accounts \subseteq ac.set.seen
    /\ ac' = [ac EXCEPT !.config = ac.set.config, !.mu = "free", !.set = SetIdle]

\* CheckToken: FindGroup under c.mu.RLock(), and the returns of CheckToken
\* that do not read c.accounts
RaceFind(tokenInfo, ctxErr) ==
    /\ ~ac.fatal
    /\ ac.ck.pc = "idle"
    /\ ac.mu = "free"
    /\ ac.nchecks < MaxChecks
    /\ LET found == FindGroup(ac.config, tokenInfo, ac.authDB)
           direct == \/ found.kind # "group"
                     \/ found.g.reject
                     \/ found.g.serviceAccount = ""
       IN  ac' = [ac EXCEPT
                    !.nchecks = @ + 1,
                    !.ck = [CkIdle EXCEPT
                              !.pc = IF direct THEN "done" ELSE "found",
                              !.found = found,
                              !.snap = AccountOf(ac.accounts, found.g.serviceAccount),
                              !.res = IF direct
                                      THEN AfterFindGroup(found, "", FALSE, ctxErr)
                                      ELSE <<>>]]

\* CheckToken: the read of c.accounts[g.ServiceAccount] begins, c.mu not held
RaceReadBegin ==
    /\ ~ac.fatal
    /\ ac.ck.pc = "found"
    /\ ac' = [ac EXCEPT !.ck.pc = "read"]

\* CheckToken: the read is done; sa.Token and the return
RaceReadEnd(tokenOK) ==
    /\ ~ac.fatal
    /\ ac.ck.pc = "read"
    /\ LET entry == AccountOf(ac.accounts, ac.ck.found.g.serviceAccount)
       IN  ac' = [ac EXCEPT !.ck.pc = "done",
                            !.ck.entry = entry,
                            !.ck.res = AfterFindGroup(ac.ck.found, entry, tokenOK, FALSE)]

\* the caller takes the result of CheckToken
RaceCheckTaken ==
    /\ ~ac.fatal
    /\ ac.ck.pc = "done"
    /\ ac' = [ac EXCEPT !.ck = CkIdle]

\* CheckToken is reading c.accounts while Set is writing it
RaceConflict ==
    /\ ac.ck.pc = "read"
    /\ ac.set.pc \in {"write", "delete"}

\* the runtime detects the concurrent map read and map write and ends the
\* process
RaceFatal ==
    /\ ~ac.fatal
    /\ RaceConflict
    /\ ac' = [ac EXCEPT !.fatal = TRUE]

NextACLRace ==
    \/ \E config \in RaceConfigs, pool \in RacePools : RaceSetLock(config, pool) /\ AclFrame
    \/ RaceSetIter /\ AclFrame
    \/ RaceSetWritten /\ AclFrame
    \/ RaceSetDelete /\ AclFrame
    \/ RaceSetDeleted /\ AclFrame
    \/ RaceSetReturn /\ AclFrame
    \/ \E tokenInfo \in RaceTokenInfos, ctxErr \in BOOLEAN :
          RaceFind(tokenInfo, ctxErr) /\ AclFrame
    \/ RaceReadBegin /\ AclFrame
    \/ \E tokenOK \in BOOLEAN : RaceReadEnd(tokenOK) /\ AclFrame
    \/ RaceCheckTaken /\ AclFrame
    \/ RaceFatal /\ AclFrame

SpecACLRace == InitACLRace /\ [][NextACLRace]_vars

-----------------------------------------------------------------------------
(* Properties of ConfigMapLoader.Load, checked under Spec *)

\* the running or finished call has read the token map
SeqsRead ==
    /\ pc \in {"delete", "update", "done"}
    /\ ~(ret.kind = "err" /\ ret.err = "seqs")

\* the token map of the store at the entry of the call (T1)
StoredTokens == [n \in DOMAIN hist.store0 |-> hist.store0[n].seq]

\* the order of the runtime names of the model, as a table
NameRank(n) == CASE n = "clang" -> 1 [] n = "gcc" -> 2 [] n = "msvc" -> 3

RECURSIVE SumLen(_, _)
\* the total length of the lists f[n], n in S
SumLen(f, S) ==
    IF S = {} THEN 0
    ELSE LET n == CHOOSE x \in S : TRUE
         IN  Len(f[n]) + SumLen(f, S \ {n})

\* resp is the lists f[n] one after the other, in the order of the names
IsConcatByName(resp, f) ==
    /\ Len(resp) = SumLen(f, DOMAIN f)
    /\ \A n \in DOMAIN f : \A i \in 1..Len(f[n]) :
          resp[SumLen(f, {m \in DOMAIN f : NameRank(m) < NameRank(n)}) + i] = f[n][i]

\* the entry of runtime n is the same in the stores a and b (or in neither)
SameEntry(a, b, n) ==
    /\ n \in DOMAIN a <=> n \in DOMAIN b
    /\ n \in DOMAIN a => a[n] = b[n]

\* C1 (as claimed): for T1 # T2, Load(force=false) takes as runtimes to reload
\* exactly the runtimes of T2 whose token differs from the stored one or
\* whose name is not in the store, whatever the token, and as runtimes to
\* delete exactly those of T1 that are absent from T2.
C1_ReloadsChangedOrNew ==
    (SeqsRead /\ ~ld.force /\ StoredTokens # ld.seqs) =>
        /\ DOMAIN ld.updated =
              {n \in DOMAIN ld.seqs :
                 \/ n \notin DOMAIN hist.store0
                 \/ hist.store0[n].seq # ld.seqs[n]}
        /\ ld.deleted = DOMAIN hist.store0 \ DOMAIN ld.seqs

\* the second of two Load(force=false) calls has returned, and the source
\* has not changed since the first one began
SecondOfTwo ==
    /\ pc = "done"
    /\ prev.valid
    /\ ~prev.force
    /\ ~ld.force
    /\ ~ld.changed

C3_NoUpdateTouchesNothing ==
    (SeqsRead /\ DOMAIN ld.updated = {} /\ ld.deleted = {} /\ ~ld.force) =>
        /\ pc = "done"
        /\ ret = RetNoUpdate
        /\ ~hist.bucket
        /\ ~hist.rcs
        /\ DOMAIN hist.listing = {}
        /\ lastConfigs = hist.store0

C3_Witness ==
    /\ pc = "done"
    /\ ret.kind = "noupdate"
    /\ ~ld.force
    /\ DOMAIN lastConfigs = Names
    /\ \A n \in Names : Len(lastConfigs[n].configs) > 0

\* the records the response should hold for runtime n of the fetched map:
\* those fetched in this call, else those stored at the entry of the call
RecordsAfter(n) ==
    IF n \in DOMAIN hist.fetched THEN hist.fetched[n]
    ELSE IF n \in DOMAIN hist.store0 THEN hist.store0[n].configs
    ELSE <<>>

ResponseByName == IsConcatByName(ret.configs, [n \in DOMAIN ld.seqs |-> RecordsAfter(n)])

\* C4 (as claimed): a response holds, in name order, the newly fetched
\* records of every stored runtime whose token changed, the stored records
\* of every runtime whose token is equal, and nothing of an absent runtime.
C4_ResponseHasNewRecordsOfChanged ==
    (pc = "done" /\ ret.kind = "resp") =>
        /\ \A n \in DOMAIN hist.store0 \cap DOMAIN ld.seqs :
              hist.store0[n].seq # ld.seqs[n] => n \in DOMAIN hist.fetched
        /\ ResponseByName

\* C4 (amended): a response holds, in name order, the newly fetched records
\* of every runtime reloaded in the pass (in the reload set, with a
\* non-empty service address), the records stored before the call of every
\* other runtime of the fetched map, and nothing of an absent runtime.
C4_ResponseHasRecordsOfReloaded ==
    (pc = "done" /\ ret.kind = "resp") =>
        /\ DOMAIN hist.fetched =
              {n \in DOMAIN ld.updated : ld.rcs[n].addr # ""}
        /\ \A n \in DOMAIN ld.seqs \ DOMAIN ld.updated :
              n \in DOMAIN hist.store0 => hist.store0[n].seq = ld.seqs[n]
        /\ ResponseByName

C4_Witness ==
    /\ pc = "done"
    /\ ret.kind = "resp"
    /\ DOMAIN hist.store0 = Names
    /\ DOMAIN ld.seqs = {"clang", "msvc"}
    /\ DOMAIN hist.fetched = {"clang"}
    /\ hist.store0["clang"].seq = "a" /\ ld.seqs["clang"] = "b"
    /\ hist.fetched["clang"] # hist.store0["clang"].configs
    /\ Len(hist.store0["gcc"].configs) > 0
    /\ Len(hist.store0["msvc"].configs) > 0

\* the call has made the descriptor fetch of runtime n, and the fetch read
\* a surviving object that cannot be read or parsed
FetchHitBadObject(n) ==
    /\ pc \in {"update", "done"}
    /\ n \in DOMAIN hist.listing
    /\ LET objs == ListingOf(hist.listing[n], n).objs
       IN  \E i \in 1..Len(objs) :
              /\ Survives(ld.rcs[n], objs[i])
              /\ ReadFails(objs[i])

\* C7: when one surviving descriptor object cannot be read or parsed, the
\* fetch gives an error and no list, Load returns that error and no
\* response, and the runtime's store entry is as it was before the call.
C7_FetchErrorKeepsEntry ==
    \A n \in Names :
        FetchHitBadObject(n) =>
            /\ pc = "done"
            /\ ret = RetErr("fetch")
            /\ hist.errName = n
            /\ n \notin DOMAIN hist.fetched
            /\ SameEntry(lastConfigs, hist.store0, n)

C7_Witness ==
    \E n \in Names :
        /\ FetchHitBadObject(n)
        /\ n \in DOMAIN lastConfigs
        /\ Len(lastConfigs[n].configs) > 0
        /\ lastConfigs # hist.store0

\* C25: when RuntimeConfigs (or Bucket) fails, Load returns the error with
\* the deletions applied and nothing else: the store is the store of before
\* the call without the runtimes that are absent from the fetched token map.
C25_SourceErrorAfterDeletions ==
    (pc = "done" /\ ret.kind = "err" /\ ret.err = "rcs") =>
        /\ hist.rcs
        /\ ~hist.seqsFailed
        /\ lastConfigs = Restrict(hist.store0, DOMAIN hist.store0 \cap DOMAIN ld.seqs)
        /\ DOMAIN hist.fetched = {}

\* the failed call has removed a runtime
C25_Witness ==
    /\ pc = "done"
    /\ ret = RetErr("rcs")
    /\ DOMAIN hist.store0 = Names
    /\ DOMAIN lastConfigs = Names \ {"gcc"}
    /\ "gcc" \notin DOMAIN ld.seqs

-----------------------------------------------------------------------------
(* Properties of the ConfigStore, checked under SpecStore *)

\* C5: after any sequence of Set and Delete, ConfigResp returns the record
\* lists of the runtimes in the store one after the other, in ascending
\* order of runtime name, each list in its stored order, every stored record
\* at exactly one position; ConfigResp leaves names, tokens and lists alone.
C5_ConfigRespIsConcatByName ==
    sop.op = "ConfigResp" =>
        /\ lastConfigs = sop.before
        /\ IsConcatByName(sop.resp, [n \in DOMAIN lastConfigs |-> lastConfigs[n].configs])

C5_Witness ==
    /\ sop.op = "ConfigResp"
    /\ DOMAIN lastConfigs = {"clang", "msvc"}
    /\ Len(lastConfigs["clang"].configs) = 1
    /\ Len(lastConfigs["msvc"].configs) = 2
    /\ lastConfigs["clang"].configs[1] = lastConfigs["msvc"].configs[2]

-----------------------------------------------------------------------------
(* Properties of mergePlatformProperties, checked under SpecMerge *)

NamesOf(props) == {props[i].name : i \in 1..Len(props)}

\* C9: a merge keeps every property of the target in place, appends in the
\* source's order exactly the source properties whose name is not in the
\* target, leaves the target alone for a nil source, and a second merge of
\* the same source changes nothing.
C9_MergeTargetWins ==
    /\ mg.n >= 1 =>
          /\ SubSeq(mg.once, 1, Len(mg.target0)) = mg.target0
          /\ SubSeq(mg.once, Len(mg.target0) + 1, Len(mg.once)) =
                SelectSeq(mg.platform.props, LAMBDA p : p.name \notin NamesOf(mg.target0))
          /\ mg.platform.nil => mg.once = mg.target0
          /\ (mg.target0 = <<Prop("OS", "Linux")>>
               /\ mg.platform.props = <<Prop("OS", "Windows"), Prop("ABI", "x64")>>)
              => mg.once = <<Prop("OS", "Linux"), Prop("ABI", "x64")>>
    /\ mg.n >= 2 => mg.target = mg.once

C9_Witness ==
    /\ mg.n = 2
    /\ mg.target0 = <<Prop("OS", "Linux")>>
    /\ mg.platform.props = <<Prop("OS", "Windows"), Prop("ABI", "x64")>>
    /\ mg.target = <<Prop("OS", "Linux"), Prop("ABI", "x64")>>

-----------------------------------------------------------------------------
(* Properties of loadConfigs, checked under SpecLC *)

\* C6: for the same listing, runtime config and object contents, loadConfigs
\* returns the same ordered list (or the same failure) whatever the
\* interleaving of its workers, with one worker at a time or with many:
\* the result is the one of the workers run one by one in listing order.
C6_ResultIndependentOfInterleaving ==
    lc.result.done =>
        LET r == loadConfigs(lc.listing, lc.rc, Platform(lc.rc.props))
        IN  /\ lc.result.err = r.err
            /\ lc.result.confs = r.confs

\* workers finished in another order than the listing's, and the records of
\* two of them are in the result
C6_Witness ==
    /\ lc.result.done
    /\ lc.parallel
    /\ Len(lc.result.confs) >= 2
    /\ \E a, b \in 1..Len(lc.order) :
          /\ a < b
          /\ lc.order[a] > lc.order[b]
          /\ lc.order[a] \in DOMAIN lc.confList
          /\ lc.order[b] \in DOMAIN lc.confList

\* a descriptor that was read is dropped by validation
Dropped(rc, d) ==
    \/ d.sel.nil
    \/ \E k \in 1..Len(rc.disallowedCommands) :
          SelectorDenies(rc.disallowedCommands[k], d.sel)
    \/ d.setup = "nil"
    \/ d.setup = "UNKNOWN_PATH_TYPE"

\* C8: a descriptor that is read but fails validation (no selector, selector
\* on the deny-list, no setup, unknown path type) is dropped and does not
\* fail the batch: when every surviving object can be read, loadConfigs
\* succeeds and returns exactly the records of the other descriptors, in
\* listing order.
C8_InvalidDescriptorIsDropped ==
    (/\ lc.result.done
     /\ ~lc.listing.iterErr
     /\ \A i \in 1..Len(lc.attrs) : ~ReadFails(lc.attrs[i]))
    => LET kept == SelectSeq(lc.attrs, LAMBDA o : ~Dropped(lc.rc, o.desc))
       IN  /\ ~lc.result.err
           /\ Len(lc.result.confs) = Len(kept)
           /\ \A i \in 1..Len(kept) :
                 /\ lc.result.confs[i].desc = kept[i].desc
                 /\ lc.result.confs[i].ts = kept[i].updated
                 /\ lc.result.confs[i].target = lc.rc.addr

C8_Witness ==
    /\ lc.result.done
    /\ ~lc.result.err
    /\ Len(lc.attrs) = 3
    /\ Dropped(lc.rc, lc.attrs[2].desc)
    /\ Len(lc.result.confs) = 2

\* the workers that failed, in the order in which they returned
FailedInOrder == SelectSeq(lc.order, LAMBDA i : ReadFails(lc.attrs[i]))

\* C24 (as claimed): once a worker of loadConfigs has failed, no further
\* worker is started and no other worker reads from storage, and the error
\* returned is that of the first worker that failed.
C24_FirstErrorAbortsInFlightWork ==
    /\ [][(lc.pcm = "dispatch" /\ lc.egErr # 0)
             => /\ lc'.next = lc.next
                /\ \A i \in DOMAIN lc.w : lc.w[i] = "started" => lc'.w[i] = "started"]_vars
    /\ []((lc.result.done /\ lc.result.err /\ ~lc.listing.iterErr)
             => lc.egErr = Head(FailedInOrder))

\* C24 (amended): a failure stops nothing: loadConfigs returns only after a
\* worker was started for every surviving object and every worker has
\* returned, those started or still reading after the first failure
\* included; it fails if and only if some worker failed, and the error
\* returned is that of the worker that failed first.
C24_FirstErrorReturnedAfterAllWorkers ==
    (lc.result.done /\ ~lc.listing.iterErr) =>
        /\ Len(lc.order) = Len(lc.attrs)
        /\ \A i \in 1..Len(lc.attrs) : \E k \in 1..Len(lc.order) : lc.order[k] = i
        /\ lc.result.err <=> FailedInOrder # <<>>
        /\ lc.result.err => lc.egErr = Head(FailedInOrder)

\* one worker at a time: the first worker failed, the second was started
\* after that, read its descriptor and stored its record, the third failed
\* too, and the error returned is the first worker's
C24_Witness ==
    /\ lc.result.done
    /\ lc.result.err
    /\ ~lc.parallel
    /\ Len(lc.attrs) = 3
    /\ FailedInOrder = <<1, 3>>
    /\ 2 \in DOMAIN lc.confList
    /\ lc.egErr = 1

\* the workers that were started and have not returned
Running == {i \in DOMAIN lc.w : lc.w[i] \in {"started", "read"}}

\* C26: at most 1 (parallel = false) or NumCPU * 4 (parallel = true) workers
\* of loadConfigs are started and not finished; the semaphore holds one slot
\* per such worker, so every worker has released its slot once when it
\* returns, whatever its exit; loadConfigs returns.
C26_WorkersBoundedBySemaphore ==
    /\ [](/\ Cardinality(Running) <= (IF lc.parallel THEN NumCPU * 4 ELSE 1)
          /\ lc.sema = Cardinality(Running)
          /\ lc.result.done => lc.sema = 0 /\ Running = {})
    /\ <>(lc.result.done)

\* the semaphore is full and an object waits for a slot
C26_Witness ==
    /\ lc.parallel
    /\ lc.pcm = "dispatch"
    /\ Cardinality(Running) = NumCPU * 4
    /\ lc.next = NumCPU * 4 + 1
    /\ lc.next <= Len(lc.attrs)
    /\ lc.w[lc.next] = "new"

\* the index of the k-th slot that holds a record
FilledSlot(k) ==
    CHOOSE i \in DOMAIN lc.confList :
        Cardinality({j \in DOMAIN lc.confList : j <= i}) = k

\* C27: a step that changes the slot array is worker i writing its record
\* into the empty slot i; loadConfigs returns a list only when every worker
\* has returned, and the list is the records of the non-empty slots in
\* listing order, each once.
C27_SlotPerWorkerThenCompaction ==
    /\ [][lc'.confList # lc.confList
            => \E i \in DOMAIN lc.w :
                  /\ lc.w[i] = "read"
                  /\ lc'.w[i] = "done"
                  /\ i \notin DOMAIN lc.confList
                  /\ DOMAIN lc'.confList = DOMAIN lc.confList \cup {i}
                  /\ \A j \in DOMAIN lc.confList : lc'.confList[j] = lc.confList[j]
                  /\ lc'.confList[i].desc = lc.attrs[i].desc]_vars
    /\ []((lc.result.done /\ ~lc.result.err /\ ~lc.listing.iterErr)
            => /\ \A i \in DOMAIN lc.w : lc.w[i] = "done"
               /\ DOMAIN lc.confList \subseteq 1..Len(lc.attrs)
               /\ Len(lc.result.confs) = Cardinality(DOMAIN lc.confList)
               /\ \A k \in 1..Len(lc.result.confs) :
                     lc.result.confs[k] = lc.confList[FilledSlot(k)])

\* three workers, the slot in the middle empty, the last slot written first
C27_Witness ==
    /\ lc.result.done
    /\ ~lc.result.err
    /\ lc.parallel
    /\ Len(lc.attrs) = 3
    /\ DOMAIN lc.confList = {1, 3}
    /\ lc.order[1] = 3
    /\ Len(lc.result.confs) = 2
    /\ lc.result.confs[1].desc = lc.attrs[1].desc
    /\ lc.result.confs[2].desc = lc.attrs[3].desc

\* the prebuilt-item name of an object: the directory two levels above it
PrebuiltItemName(objName) == PathBase(PathDir(PathDir(objName)))

\* the object is to be fetched, as the claim has it
ClaimedFetched(rc, objName) ==
    /\ PathBase(PathDir(objName)) = "descriptors"
    /\ \A k \in 1..Len(rc.disallowedPrebuilts) :
          ~HasPrefix(PrebuiltItemName(objName), rc.disallowedPrebuilts[k])
    /\ \/ Len(rc.allowedPrebuilts) = 0
       \/ \E k \in 1..Len(rc.allowedPrebuilts) :
             HasPrefix(PrebuiltItemName(objName), rc.allowedPrebuilts[k])

\* C28: the objects kept for fetching are, in listing order, those in a
\* directory named "descriptors" whose prebuilt-item name (the directory two
\* levels above the object) starts with no deny-list prefix and, if the
\* allow-list is not empty, with one of its prefixes.
C28_FetchedIffPrebuiltPasses ==
    lc.pcm = "dispatch" =>
        lc.attrs = SelectSeq(lc.listing.objs, LAMBDA o : ClaimedFetched(lc.rc, o.name))

-----------------------------------------------------------------------------
(* Properties of the ConfigStore under concurrent callers, checked under SpecLock *)

\* the Set and Delete calls of the two goroutines are not interleaved
LogInBlocks ==
    \A i, j, k \in 1..Len(cs.log) :
        (i < j /\ j < k /\ cs.log[i] = cs.log[k]) => cs.log[j] = cs.log[i]

\* C29: no goroutine is inside a ConfigStore method while another is inside
\* Set or Delete, and the Set and Delete calls of two Load calls do not
\* interleave.
C29_StoreCallsMutuallyExclusive ==
    /\ ~CsConflict
    /\ LogInBlocks

-----------------------------------------------------------------------------
(* Properties of the watchers, checked under SpecWatch *)

\* C10 (as claimed): with either watcher, a Next that returns after Close
\* returns success, the context's error or ErrWatcherClosed.
C10_NextAfterCloseReturnsErrWatcherClosed ==
    /\ (pw.active /\ pw.pcn = "returned" /\ pw.afterClose)
          => pw.res \in {"nil", "ctx", "ErrWatcherClosed"}
    /\ (pl.active /\ pl.pcn = "returned" /\ pl.afterClose)
          => pl.res \in {"nil", "ctx", "ErrWatcherClosed"}

\* the message reports that an object with base name "seq" was finalized
IsSeqFinalize(m) ==
    /\ m.eventType = "OBJECT_FINALIZE"
    /\ Len(m.objectId) >= 3
    /\ SubSeq(m.objectId, Len(m.objectId) - 2, Len(m.objectId)) = "seq"
    /\ (Len(m.objectId) = 3 \/ SubSeq(m.objectId, Len(m.objectId) - 3, Len(m.objectId) - 3) = "/")

\* C11: the push watcher's Next returns success only in a call in which it
\* took a finalize message of an object with base name "seq"; as long as it
\* has taken only other messages it has acknowledged them and keeps waiting.
C11_SuccessOnlyAfterSeqFinalize ==
    pw.active =>
        /\ (pw.pcn = "returned" /\ pw.res = "nil") =>
              \E i \in 1..Len(pw.callTaken) : IsSeqFinalize(pw.callTaken[i])
        /\ (\E i \in 1..Len(pw.callTaken) : IsSeqFinalize(pw.callTaken[i])) =>
              pw.pcn \in {"drain", "returned"}
        /\ pw.pcn \in {"select", "blocked"} =>
              \A i \in 1..Len(pw.callTaken) :
                 /\ ~IsSeqFinalize(pw.callTaken[i])
                 /\ pw.callTaken[i].id \in DOMAIN pw.acks
                 /\ pw.acks[pw.callTaken[i].id] = 1

C11_Witness ==
    /\ pw.active
    /\ pw.pcn = "returned"
    /\ pw.res = "nil"
    /\ Len(pw.callTaken) = 3
    /\ pw.callTaken[1].eventType = "OBJECT_DELETE"
    /\ pw.callTaken[2].objectId = "clang/p1/descriptors/h1"
    /\ IsSeqFinalize(pw.callTaken[3])

\* C12: every message taken from the channel, by Next or by the drain
\* goroutine of Close, relevant or not, is acknowledged exactly once, and
\* no message is acknowledged that was not taken.
C12_TakenAckedExactlyOnce ==
    pw.active =>
        /\ DOMAIN pw.acks = pw.taken
        /\ \A id \in pw.taken : pw.acks[id] = 1
        /\ pw.taken \cap IdsOf(pw.sending) = {}

C12_Witness ==
    /\ pw.active
    /\ pw.closes > 0
    /\ Cardinality(pw.taken) = 3
    /\ Len(pw.callTaken) = 1
    /\ ~IsSeqFinalize(pw.callTaken[1])
    /\ pw.pcn = "blocked"

\* C13 (as claimed): a Next that found a relevant message returns success,
\* and by then every message that was pending on the channel when it found
\* it has been taken and acknowledged, so that the burst causes one
\* successful return.
C13_BurstCoalescedIntoOneSuccess ==
    (pw.active /\ pw.pcn = "returned" /\ pw.found) =>
        /\ pw.res = "nil"
        /\ pw.pendingAtFind \subseteq pw.taken
        /\ pw.pendingAtFind \cap IdsOf(pw.sending) = {}
        /\ \A id \in pw.pendingAtFind : pw.acks[id] = 1

\* C15: when the context is cancelled on a Next that is parked in its
\* select with no message pending (push) or before the timer fired and
\* before Close (poll), Next returns the context's error and has taken and
\* acknowledged no message since.
C15_CancelWhileBlockedReturnsCtxErr ==
    /\ (pw.active /\ pw.cancelAt >= 0) =>
          /\ pw.pcn \in {"blocked", "returned"}
          /\ Len(pw.callTaken) = pw.cancelAt
          /\ pw.pcn = "returned" => pw.res = "ctx"
    /\ (pl.active /\ pl.cancelAt >= 0) =>
          /\ pl.pcn \in {"blocked", "returned"}
          /\ pl.pcn = "returned" => pl.res = "ctx"

C15_Witness ==
    /\ pw.active
    /\ pw.pcn = "returned"
    /\ pw.res = "ctx"
    /\ pw.cancelAt = 1
    /\ pw.sending # <<>>
    /\ IsSeqFinalize(Head(pw.sending))

-----------------------------------------------------------------------------
(* Properties of ConfigMapBucket.Watcher, checked under SpecSetup *)

\* every step of the push setup succeeds with these answers
SetupSucceeds(env) ==
    /\ env.uri \in {"gs://bkt/cfg", "gs://bkt"}
    /\ ~env.nm.err
    /\ \E i \in 1..Len(env.nm.topics) : env.nm.topics[i] = "bkt"
    /\ env.topicExists = "yes"
    /\ env.subscriberID # ""
    /\ \/ env.subExists = "yes" /\ env.subConfig = "same"
       \/ env.subExists = "no" /\ env.create = "ok"

\* C14: Watcher returns the push watcher when every step of the push setup
\* succeeds and the poll watcher when any step fails, makes each call of the
\* setup at most once, and records the pubsub-error metric once: 0 for push,
\* 1 for the fallback.
C14_WatcherFallsBackToPoller ==
    wt.called =>
        /\ pw.active <=> SetupSucceeds(wt.env)
        /\ pl.active <=> ~SetupSucceeds(wt.env)
        /\ wt.metric = <<IF SetupSucceeds(wt.env) THEN 0 ELSE 1>>
        /\ \A i, j \in 1..Len(wt.calls) : wt.calls[i] = wt.calls[j] => i = j
        /\ pw.active => pw.run = "receive"

C14_Witness ==
    /\ wt.called
    /\ wt.env.subExists = "yes"
    /\ wt.env.subConfig = "other"
    /\ wt.env.topicExists = "yes"
    /\ wt.env.uri = "gs://bkt"
    /\ wt.calls = <<"Notifications", "Topic.Exists", "Subscription.Exists", "Subscription.Config">>
    /\ pl.active
    /\ pl.pcn = "select"
    /\ wt.metric = <<1>>

-----------------------------------------------------------------------------
(* Further properties of ConfigMapLoader.Load, checked under Spec *)

\* C16: when Seqs fails, Load returns that error and no response, and the
\* store is as it was: nothing was deleted, nothing was set.
C16_SeqsErrorLeavesStore ==
    (pc # "idle" /\ hist.seqsFailed) =>
        /\ pc = "done"
        /\ ret = RetErr("seqs")
        /\ lastConfigs = hist.store0
        /\ DOMAIN hist.listing = {}

C16_Witness ==
    /\ pc = "done"
    /\ hist.seqsFailed
    /\ ret = RetErr("seqs")
    /\ DOMAIN lastConfigs = Names
    /\ "gcc" \notin DOMAIN src.seqObj

\* the runtime configs were read in this call
RcsRead ==
    /\ pc \in {"update", "done"}
    /\ hist.rcs
    /\ ~(ret.kind = "err" /\ ret.err = "rcs")

\* C17: a runtime to reload whose resolved service address is empty is
\* skipped without error: no descriptor fetch is made for it, its store
\* entry is as it was before the call, and the call still returns a response
\* unless another runtime makes it fail.
C17_EmptyAddrIsSkipped ==
    RcsRead =>
        /\ \A n \in DOMAIN ld.updated :
              (n \in DOMAIN ld.rcs /\ ld.rcs[n].addr = "") =>
                 /\ n \notin DOMAIN hist.listing
                 /\ n \notin DOMAIN hist.fetched
                 /\ SameEntry(lastConfigs, hist.store0, n)
                 /\ hist.errName # n
        /\ (pc = "done" /\ hist.errName = "") =>
              /\ ret.kind = "resp"
              /\ \A n \in DOMAIN ld.updated :
                    (n \in DOMAIN ld.rcs /\ ld.rcs[n].addr # "") => n \in DOMAIN hist.fetched

C17_Witness ==
    /\ RcsRead
    /\ pc = "done"
    /\ ret.kind = "resp"
    /\ "gcc" \in DOMAIN ld.updated
    /\ ld.rcs["gcc"].addr = ""
    /\ "gcc" \notin DOMAIN lastConfigs
    /\ DOMAIN hist.fetched = {"clang", "msvc"}
    /\ DOMAIN lastConfigs = {"clang", "msvc"}

\* C18: when a runtime to reload has no entry in the runtime configs that the
\* call read, Load returns an error and no response, in whatever order the
\* runtimes to reload are processed.
C18_MissingRuntimeConfigFails ==
    (RcsRead /\ \E n \in DOMAIN ld.updated : n \notin DOMAIN ld.rcs) =>
        /\ pc = "done" => (ret.kind = "err" /\ ret.configs = <<>>)
        /\ pc = "update" => \E n \in ld.pending : n \notin DOMAIN ld.rcs

C18_Witness ==
    /\ RcsRead
    /\ pc = "done"
    /\ "gcc" \in DOMAIN ld.updated
    /\ "gcc" \notin DOMAIN ld.rcs
    /\ ret = RetErr("notfound")
    /\ DOMAIN hist.fetched # {}

-----------------------------------------------------------------------------
(* Properties of ConfigLoader.Load, checked under SpecLC *)

\* the positions of the records without command descriptor
SyntheticAt(confs) == {i \in 1..Len(confs) : confs[i].desc.nil}

\* C19: ConfigLoader.Load returns the records of loadConfigs followed by
\* exactly one record without command descriptor if the runtime config has
\* a PlatformRuntimeConfig, and those records alone if it has none; when
\* loadConfigs fails it returns the error and no record.
C19_SyntheticRecordIffPlatformRuntimeConfig ==
    lc.loaded.done =>
        IF lc.result.err
        THEN lc.loaded.err /\ lc.loaded.confs = <<>>
        ELSE /\ ~lc.loaded.err
             /\ SyntheticAt(lc.result.confs) = {}
             /\ SubSeq(lc.loaded.confs, 1, Len(lc.result.confs)) = lc.result.confs
             /\ SyntheticAt(lc.loaded.confs) =
                   IF lc.rc.hasPRC THEN {Len(lc.result.confs) + 1} ELSE {}
             /\ Len(lc.loaded.confs) =
                   Len(lc.result.confs) + (IF lc.rc.hasPRC THEN 1 ELSE 0)
             /\ lc.rc.hasPRC =>
                   LET c == lc.loaded.confs[Len(lc.loaded.confs)]
                   IN  /\ c.platform = Platform(lc.rc.props)
                       /\ c.acl = lc.rc.acl

\* every listed descriptor was filtered out or dropped, and the list is the
\* synthetic record alone
C19_Witness ==
    /\ lc.loaded.done
    /\ ~lc.loaded.err
    /\ lc.rc.hasPRC
    /\ Len(lc.listing.objs) = 3
    /\ Len(lc.attrs) = 2
    /\ lc.result.confs = <<>>
    /\ Len(lc.loaded.confs) = 1
    /\ lc.loaded.confs[1].desc.nil

-----------------------------------------------------------------------------
(* Properties of authdb Client.IsMember, checked under SpecAuthdb *)

\* the position of the first error of the list that is not Unavailable, 0 if none
FirstFatal(errs) ==
    IF \A i \in 1..Len(errs) : errs[i] = "Unavailable" THEN 0
    ELSE CHOOSE i \in 1..Len(errs) :
            /\ errs[i] # "Unavailable"
            /\ \A j \in 1..(i - 1) : errs[j] = "Unavailable"

-----------------------------------------------------------------------------
(* Properties of memoryCheck.Admit, checked under SpecAdmit *)

\* C23: Admit accepts when the soft threshold is not positive or the memory
\* size, before or after the GC, is below the soft threshold; a size after
\* GC in [softThreshold, hardThreshold) is answered with Unavailable, a size
\* above the hard threshold with ResourceExhausted; every rejection has
\* marked the server unhealthy.
C23_AdmitFollowsThresholds ==
    mc.pcm = "done" =>
        /\ (\/ mc.softThreshold <= 0
            \/ mc.rss < mc.softThreshold
            \/ mc.gcRan /\ mc.rssGC < mc.softThreshold) => mc.res = "nil"
        /\ (/\ mc.gcRan
            /\ mc.rssGC >= mc.softThreshold
            /\ mc.rssGC < mc.hardThreshold) => mc.res = "Unavailable"
        /\ (mc.gcRan /\ mc.rssGC > mc.hardThreshold) => mc.res = "ResourceExhausted"
        /\ mc.res # "nil" => mc.unhealthy

-----------------------------------------------------------------------------
(* Properties of the bytestream Writer, checked under SpecBS *)

RECURSIVE ConcatData(_)
\* the chunks of the requests q, one after the other
ConcatData(q) == IF q = <<>> THEN <<>> ELSE Head(q).data \o ConcatData(Tail(q))

\* the part of the data that was passed to Write
BsWritten == SubSeq(bs.data, 1, Len(bs.data) - Len(bs.rest))

BsPlainServer == bs.srv.err = "" /\ bs.srv.early = 0

BsStoringServer == bs.srv.err = "AlreadyExists" \/ bs.srv.early # 0

-----------------------------------------------------------------------------
(* Properties of the receive loop of the push watcher, checked under SpecWatch *)

\* C30: after an error of Receive with code Unknown the receive loop goes
\* on; w.ch is closed once, after the loop has ended for good (Receive was
\* cancelled or failed with another code), when no callback is sending,
\* and nothing is delivered or sent afterwards.
C30_ReceiveLoopRetriesThenClosesOnce ==
    /\ [][(pw.active /\ pw'.nerr > pw.nerr /\ pw'.lastCode = "Unknown")
             => pw'.run = "receive"]_vars
    /\ [][(pw.active /\ pw.run = "closed")
             => /\ pw'.run = "closed"
                /\ pw'.delivered = pw.delivered
                /\ pw'.sending = <<>>]_vars
    /\ []((pw.active /\ pw.run = "closed")
             => /\ pw.sending = <<>>
                /\ \/ pw.cancelled
                   \/ pw.nerr > 0 /\ pw.lastCode # "Unknown")

\* Receive failed with Unknown, was called again and has delivered a message
C30_Witness ==
    /\ pw.active
    /\ pw.run = "receive"
    /\ pw.nerr = 1
    /\ pw.lastCode = "Unknown"
    /\ pw.sending # <<>>

-----------------------------------------------------------------------------
(* Properties of Close of the push watcher, checked under SpecWatchFair *)

\* every message handed to the callback was taken from w.ch and acknowledged
AllTakenAndAcked ==
    \A id \in 1..pw.delivered : id \in pw.taken /\ id \in DOMAIN pw.acks

\* C31: after Close() of the push watcher the receive loop is cancelled
\* and hands over nothing new, every message handed or being handed to
\* w.ch is eventually taken and acknowledged, w.ch is eventually closed and
\* the drain goroutine ends; each Close calls Delete once and returns what
\* Delete returned.
C31_CloseDrainsAndDeletes ==
    /\ [](pw.active =>
            /\ pw.closes > 0 => pw.cancelled
            /\ pw.deletes = pw.closes
            /\ pw.closeRes = pw.lastDelete)
    /\ [][pw.active /\ pw.cancelled => pw'.delivered = pw.delivered]_vars
    /\ (pw.active /\ pw.closes > 0)
          ~> (/\ pw.active
              /\ pw.run = "closed"
              /\ pw.sending = <<>>
              /\ pw.drainers = 0
              /\ AllTakenAndAcked)

\* Close was called with messages being handed over and no Next to take
\* them; they were drained, w.ch is closed, the error of Delete came back
C31_Witness ==
    /\ pw.active
    /\ pw.closes = 1
    /\ pw.nexts = 0
    /\ pw.delivered = 2
    /\ pw.run = "closed"
    /\ pw.drainers = 0
    /\ AllTakenAndAcked
    /\ pw.closeRes = "err"

-----------------------------------------------------------------------------
(* Properties of Load retried after a failure, checked under SpecRetry *)

\* a call with force=false has returned without failing, the source did
\* not change during it
RetryEnded ==
    /\ pc = "done"
    /\ ~ld.force
    /\ ~ld.changed
    /\ ret.kind \in {"resp", "noupdate"}

\* the runtimes of the token map with a service address, each with its
\* token and the records the fetcher yields for it
Converged(st, s) ==
    LET names == {n \in DOMAIN Seqs(s) : RuntimeConfigs(s)[n].addr # ""}
    IN  /\ DOMAIN st = names
        /\ \A n \in names :
              /\ st[n].seq = Seqs(s)[n]
              /\ st[n].configs =
                    ConfigLoaderLoad(ListingOf(s.objs[n], n), RuntimeConfigs(s)[n]).confs

\* the last aggregated response the caller has got, this call's included
LastResponse == IF ret.kind = "resp" THEN ret.configs ELSE served.configs

\* C32: after a Load that failed and left the store changed, the first
\* retry with force=false that does not fail, the content of the source
\* being the same all along, leaves the store holding exactly the runtimes
\* of the token map with a service address, each with its fetched token
\* and records, and the caller holding a response equal to that store.
C32_RetryConverges ==
    (RetryEnded /\ served.failed) =>
        /\ Converged(lastConfigs, src)
        /\ served.valid \/ ret.kind = "resp"
        /\ LastResponse = ConfigResp(lastConfigs)

\* the entry of runtime n is written in this step
Written(n) ==
    /\ n \in DOMAIN lastConfigs'
    /\ n \in DOMAIN lastConfigs => lastConfigs'[n] # lastConfigs[n]

\* C33: an entry of the store is written only by the update loop of a Load,
\* after the descriptor fetch of that runtime has succeeded in that call,
\* and gets the token Seqs returned to that call together with the records
\* of that fetch: no token changes while the records stay the old ones.
C33_TokenAndRecordsWrittenTogether ==
    [][\A n \in Names :
          Written(n) =>
             /\ pc = "update"
             /\ n \in ld.pending /\ n \notin ld'.pending
             /\ n \in DOMAIN ld.seqs
             /\ ~ld.cancelled
             /\ LET r == ConfigLoaderLoad(ListingOf(src.objs[n], n), ld.rcs[n])
                IN  /\ ~r.err
                    /\ lastConfigs'[n] = [seq |-> ld.seqs[n], configs |-> r.confs]
                    /\ hist'.fetched[n] = r.confs]_vars

\* a Load has replaced the token of a stored runtime and its records with it
C33_Witness ==
    /\ pc = "update"
    /\ "msvc" \in DOMAIN hist.fetched
    /\ hist.store0["msvc"].seq = "a"
    /\ lastConfigs["msvc"] = [seq |-> "b", configs |-> hist.fetched["msvc"]]
    /\ "clang" \in ld.pending

\* a forced Load that found no token changed and no runtime to delete has
\* returned
ForcedWithoutChange ==
    /\ pc = "done"
    /\ ld.force
    /\ ~hist.seqsFailed
    /\ DOMAIN ld.updated = {}
    /\ ld.deleted = {}

\* C34: Load(force=true) that finds no token changed and no runtime removed
\* does not return ErrNoUpdate: it returns an aggregated response (the error
\* of RuntimeConfigs if the config map became unreadable during the call),
\* invokes the descriptor fetcher for no runtime and leaves the store as it
\* was; the records of the response are those of the store.
C34_ForcedLoadWithoutChange ==
    ForcedWithoutChange =>
        /\ ret.kind # "noupdate"
        /\ ret.kind = "err" => ret.err = "rcs" /\ ld.changed
        /\ ret.kind = "resp" => ret.configs = ConfigResp(hist.store0)
        /\ hist.listing = <<>>
        /\ DOMAIN hist.fetched = {}
        /\ hist.skipped = {}
        /\ lastConfigs = hist.store0

\* the forced call returned the records of a store that holds runtimes
C34_Witness ==
    /\ ForcedWithoutChange
    /\ ret.kind = "resp"
    /\ DOMAIN lastConfigs = Names
    /\ Len(ret.configs) > 0
    /\ ~ld.changed

\* C36 (as claimed): whenever Load(force=false) returns ErrNoUpdate, the
\* records in the store are those of the last aggregated response Load
\* returned to the caller, or the store is empty if it returned none.
C36_NoUpdateMeansLastResponseIsCurrent ==
    (pc = "done" /\ ~ld.force /\ ret.kind = "noupdate") =>
        IF served.valid
        THEN served.configs = ConfigResp(lastConfigs)
        ELSE lastConfigs = EmptyStore

-----------------------------------------------------------------------------
(* The update loop of Load and the iteration order of `updated`, checked
   under Spec *)

RECURSIVE Perms(_)
\* the orders in which a range over a map with these keys can iterate
Perms(S) ==
    IF S = {} THEN {<<>>}
    ELSE UNION {{<<x>> \o p : p \in Perms(S \ {x})} : x \in S}

RECURSIVE UpdateLoop(_, _, _, _, _)
\* the store after the loop over `updated` that iterates in this order
UpdateLoop(st, order, updated, rcs, s) ==
    IF order = <<>> THEN st
    ELSE LET n == Head(order)
         IN  IF n \notin DOMAIN rcs THEN st
             ELSE IF rcs[n].addr = "" THEN UpdateLoop(st, Tail(order), updated, rcs, s)
             ELSE LET r == ConfigLoaderLoad(ListingOf(s.objs[n], n), rcs[n])
                  IN  IF r.err THEN st
                      ELSE UpdateLoop([m \in DOMAIN st \cup {n} |->
                                         IF m = n THEN [seq |-> updated[n], configs |-> r.confs]
                                         ELSE st[m]],
                                      Tail(order), updated, rcs, s)

\* the stores the call can leave, one for each iteration order
Outcomes ==
    {UpdateLoop(Restrict(hist.store0, DOMAIN hist.store0 \ ld.deleted), o,
                ld.updated, ld.rcs, src) : o \in Perms(DOMAIN ld.updated)}

\* a Load has failed in its update loop; the source did not change and the
\* context was not cancelled during the call
FailedInUpdateLoop ==
    /\ pc = "done"
    /\ ret.kind = "err"
    /\ ret.err \in {"notfound", "fetch"}
    /\ ~ld.changed
    /\ ~ld.cancelled

\* C37 (as claimed): the store left by a Load that returns an error is
\* determined by the store at entry, the token map, the metadata, the
\* storage contents and the fetch that fails: every iteration order of the
\* runtimes to reload leaves the same store.
C37_FailedLoadIndependentOfOrder ==
    FailedInUpdateLoop =>
        /\ lastConfigs \in Outcomes
        /\ Cardinality(Outcomes) = 1

\* the loop body fails for runtime n: no runtime config, or a fetch error
FailsInLoop(n) ==
    \/ n \notin DOMAIN ld.rcs
    \/ /\ ld.rcs[n].addr # ""
       /\ ConfigLoaderLoad(ListingOf(src.objs[n], n), ld.rcs[n]).err

\* C37 (amended): a Load that fails in its update loop leaves the store at
\* entry without the runtimes absent from the token map, in which the
\* runtimes it iterated before the failing one carry their new token and
\* records and every other entry is as it was; the store is the one of
\* some iteration order of `updated`, and which one is not determined.
C37_FailedLoadLeavesPrefixOfSomeOrder ==
    FailedInUpdateLoop =>
        /\ hist.errName \in DOMAIN ld.updated
        /\ FailsInLoop(hist.errName)
        /\ DOMAIN hist.fetched \subseteq DOMAIN ld.updated \ {hist.errName}
        /\ DOMAIN lastConfigs = (DOMAIN hist.store0 \ ld.deleted) \cup DOMAIN hist.fetched
        /\ \A n \in DOMAIN hist.fetched :
              /\ ~FailsInLoop(n)
              /\ lastConfigs[n] = [seq |-> ld.seqs[n], configs |-> hist.fetched[n]]
        /\ \A n \in DOMAIN lastConfigs \ DOMAIN hist.fetched :
              lastConfigs[n] = hist.store0[n]
        /\ lastConfigs \in Outcomes

\* the failed call has reloaded one runtime before the failing one, and
\* another iteration order would have left another store
C37_Witness ==
    /\ FailedInUpdateLoop
    /\ Cardinality(DOMAIN hist.fetched) = 1
    /\ Cardinality(Outcomes) > 1
    /\ \E st \in Outcomes : st = Restrict(hist.store0, DOMAIN hist.store0 \ ld.deleted)

-----------------------------------------------------------------------------
(* Next of the push watcher against the end of the receive loop, checked
   under SpecWatch *)

\* C35 (as claimed): under every interleaving of Next with Close and with
\* the end of the receive loop, Next acknowledges only messages that were
\* handed to the callback, its drain loop takes no nil message from the
\* closed channel, and Next returns instead of failing.
C35_NextUsesOnlyReceivedMessages ==
    pw.active =>
        /\ DOMAIN pw.acks \subseteq 1..pw.delivered
        /\ pw.pcn = "returned" => pw.res \in {"nil", "ctx", "ErrWatcherClosed"}

-----------------------------------------------------------------------------
(* Properties of acl.Checker, checked under SpecACL *)

\* the service account names of the groups of a config
ServiceAccountsOf(config) ==
    {config[i].serviceAccount : i \in 1..Len(config)} \ {""}

\* C38 (as claimed): a Set that fails leaves the config and the account map
\* of the checker as they were before the call; a Set that succeeds leaves
\* the new config and an account map whose keys are the service account
\* names of its groups.
C38_SetIsAtomicOnFailure ==
    ac.last.op = "Set" =>
        IF ac.last.err
        THEN /\ ac.config = ac.last.before.config
             /\ ac.accounts = ac.last.before.accounts
        ELSE /\ ac.config = ac.last.config
             /\ DOMAIN ac.accounts = ServiceAccountsOf(ac.last.config)

\* the token satisfies the conditions of the group
Matches(t, g, db) ==
    /\ g.audience = "" \/ t.audience = g.audience
    /\ IF Len(g.emails) = 0 /\ Len(g.domains) = 0
       THEN ~db.nil /\ db.member[t.email] = "yes"
       ELSE \/ \E i \in 1..Len(g.emails) : g.emails[i] = t.email
            \/ \E i \in 1..Len(g.domains), k \in 1..Len(t.email) :
                  SubSeq(t.email, k, Len(t.email)) = "@" \o g.domains[i]

\* the membership of the token in the group cannot be told: AuthDB fails
LookupFails(t, g, db) ==
    /\ g.audience = "" \/ t.audience = g.audience
    /\ Len(g.emails) = 0 /\ Len(g.domains) = 0
    /\ ~db.nil
    /\ db.member[t.email] = "err"

\* C40: CheckToken decides by the first group, in config order, that the
\* token matches: PermissionDenied and no token when no group matches or
\* when that group has reject set, the caller's token when it has no
\* service account, the token of its service account otherwise; the groups
\* after it have no say. The calls that end otherwise are those in which
\* AuthDB fails before a group has matched, the context is done when no
\* group was found, or the service account yields no token; they return an
\* error and no token.
C40_FirstMatchingGroupDecides ==
    /\ ServiceAccountsOf(ac.config) \subseteq DOMAIN ac.accounts
    /\ ac.last.op = "CheckToken" =>
          LET t == ac.last.tokenInfo
              res == ac.last.res
              I == {i \in 1..Len(ac.config) :
                      \/ Matches(t, ac.config[i], ac.authDB)
                      \/ LookupFails(t, ac.config[i], ac.authDB)}
          IN  IF I = {}
              THEN res = TokenResult("", "", IF ac.last.ctxErr THEN "Context"
                                             ELSE "PermissionDenied")
              ELSE LET i == CHOOSE j \in I : \A k \in I : j <= k
                       g == ac.config[i]
                   IN  IF LookupFails(t, g, ac.authDB)
                       THEN res = TokenResult("", "", IF ac.last.ctxErr THEN "Context"
                                                      ELSE "Backend")
                       ELSE IF g.reject
                       THEN res = TokenResult(g.id, "", "PermissionDenied")
                       ELSE IF g.serviceAccount = ""
                       THEN res = TokenResult(g.id, CallerToken, "OK")
                       ELSE IF ac.last.tokenOK
                       THEN res = TokenResult(g.id,
                                              TokenOf(g.serviceAccount,
                                                      ac.accounts[g.serviceAccount]),
                                              "OK")
                       ELSE res = TokenResult(g.id, "", "Internal")

\* the token matches the first group, which has a service account, and the
\* second, which rejects: the call returns the token of the service account
C40_Witness ==
    /\ ac.last.op = "CheckToken"
    /\ ac.config = <<GDomY, GBanned>>
    /\ ac.last.tokenInfo = [email |-> "v@y", audience |-> "aud2"]
    /\ Matches(ac.last.tokenInfo, GBanned, ac.authDB)
    /\ ac.last.res = TokenResult("domy", "sa1/k2", "OK")

-----------------------------------------------------------------------------
(* Properties of acl.Checker under a concurrent Set, checked under SpecACLRace *)

\* C39 (as claimed): under every interleaving of CheckToken with Set,
\* CheckToken never reads the account map while Set is writing it, the
\* account it reads is the one the map held when the group was matched, and
\* for a matched group with a service account it does not end with
\* "service account not found".
C39_CheckTokenReadsConsistentSnapshot ==
    /\ ~RaceConflict
    /\ ~ac.fatal
    /\ (ac.ck.pc = "done" /\ ac.ck.found.kind = "group"
          /\ ~ac.ck.found.g.reject /\ ac.ck.found.g.serviceAccount # "") =>
            /\ ac.ck.snap # ""
            /\ ac.ck.entry = ac.ck.snap
            /\ ac.ck.entry # ""

====
